---------------------------- MODULE Spec2Model ----------------------------
(* A model of jazzer_postprocessing.py: the streaming parser of a Jazzer /  *)
(* libFuzzer log.  parse_log_in_stream reads the log line by line, tees the  *)
(* raw line, decodes it, runs the five extractors, triages crashes against   *)
(* artifacts, syncs the summary into fuzz_data and dumps it when need_dump   *)
(* is set.  The script's main part dumps once more after the stream ends.    *)
EXTENDS Integers, Sequences, FiniteSets, TLC

(***************************************************************************)
(* Optional values.  Python's None is the empty tuple, a present integer x  *)
(* is <<x>>; a sanitizer class is a string, and None is NoSanitizer.         *)
(***************************************************************************)
None == << >>

Some(x) == << x >>

NoSanitizer == "None"

Max(a, b) == IF a >= b THEN a ELSE b

(***************************************************************************)
(* The catalog of sanitizer classes, in the order the code scans it.        *)
(***************************************************************************)
SANITIZERS ==
  << "FuzzerSecurityIssueCritical: OS Command Injection",
     "FuzzerSecurityIssueCritical: Integer Overflow",
     "FuzzerSecurityIssueMedium: Server Side Request Forgery (SSRF)",
     "FuzzerSecurityIssueHigh: Remote Code Execution",
     "FuzzerSecurityIssueHigh: SQL Injection",
     "FuzzerSecurityIssueCritical: Remote JNDI Lookup",
     "FuzzerSecurityIssueCritical: LDAP Injection",
     "FuzzerSecurityIssueHigh: XPath Injection",
     "FuzzerSecurityIssueHigh: load arbitrary library",
     "FuzzerSecurityIssueLow: Regular Expression Injection",
     "FuzzerSecurityIssueCritical: Script Engine Injection",
     "FuzzerSecurityIssueCritical: File read/write hook path" >>

CatalogLabels == { SANITIZERS[i] : i \in DOMAIN SANITIZERS }

(***************************************************************************)
(* A crash text ("== Java Exception: ...") is described by the substrings   *)
(* the classifier looks for:                                                 *)
(*   ci    "code_intelligence" occurs in the second colon-delimited field    *)
(*   so    "Stack overflow (use " occurs in the text                         *)
(*   oom   "Out of memory" occurs in the text                                *)
(*   beep  "BEEP BEEP, sink point" occurs in the text                        *)
(*   verb  the catalog labels that occur verbatim                            *)
(*   strp  the catalog labels whose space-stripped form occurs in the text   *)
(*   tag   the rest of the text (two texts with equal features differ here)  *)
(* Every catalog label holds a space and none is part of another, so verb    *)
(* and strp are independent sets.                                            *)
(***************************************************************************)
CrashText(tag, ci, so, oom, beep, verb, strp) ==
  [tag |-> tag, ci |-> ci, so |-> so, oom |-> oom, beep |-> beep,
   verb |-> verb, strp |-> strp]

is_of_jazzer_sink(crash, env) ==
  env.JAZZER_SINK_MODE /\ crash.beep

(* Faulty variant of is_interesting_crash: no "Stack overflow" filter. *)
is_interesting_crash_but_overflow(crash) ==
  /\ crash.ci
  /\ ~crash.oom

is_interesting_crash(crash) ==
  /\ crash.ci
  /\ ~crash.so
  /\ ~crash.oom

(* Faulty variant of ScanSanitizers: two passes over the catalog, all labels *)
(* verbatim first and the space-stripped forms after.                        *)
ScanSanitizersVerbatimFirst(crash, i) ==
  LET verbatim == { k \in i..Len(SANITIZERS) : SANITIZERS[k] \in crash.verb }
      stripped == { k \in i..Len(SANITIZERS) : SANITIZERS[k] \in crash.strp }
      Least(S) == CHOOSE k \in S : \A m \in S : k <= m
  IN IF verbatim # {} THEN SANITIZERS[Least(verbatim)]
     ELSE IF stripped # {} THEN SANITIZERS[Least(stripped)]
     ELSE "UNKNOWN SANITIZER"

(* The for loop of crash_2_sanitizer: one pass over the catalog, each label *)
(* tried verbatim and then space-stripped before the next label.            *)
RECURSIVE ScanSanitizers(_, _)
ScanSanitizers(crash, i) ==
  IF i > Len(SANITIZERS) THEN "UNKNOWN SANITIZER"
  ELSE IF SANITIZERS[i] \in crash.verb THEN SANITIZERS[i]
  ELSE IF SANITIZERS[i] \in crash.strp THEN SANITIZERS[i]
  ELSE ScanSanitizers(crash, i + 1)

(* Faulty variant of crash_2_sanitizer: the interestingness filter comes    *)
(* before the sink test.                                                     *)
crash_2_sanitizer_filter_first(crash, env) ==
  IF ~is_interesting_crash(crash) THEN NoSanitizer
  ELSE IF is_of_jazzer_sink(crash, env) THEN "SINKPOINT"
  ELSE ScanSanitizers(crash, 1)

crash_2_sanitizer(crash, env) ==
  IF is_of_jazzer_sink(crash, env) THEN "SINKPOINT"
  ELSE IF ~is_interesting_crash(crash) THEN NoSanitizer
  ELSE ScanSanitizers(crash, 1)

(***************************************************************************)
(* Lines.  A raw line is what the stream delivers (bytes); junk says that   *)
(* it carries bytes that are no UTF-8 or surrounding white space, which      *)
(* decode(errors="ignore").strip() removes.  The text of a line is           *)
(*   ts    the leading Unix time (digits and one white space), or None       *)
(*   kind  the banner that follows: start, cov, crash, artifact or other     *)
(*   exit  "@@@@@ exit code of Jazzer" occurs somewhere in the line          *)
(* and the payload of its kind.                                              *)
(***************************************************************************)
StartLine(ts) ==
  [kind |-> "start", ts |-> ts, exit |-> FALSE, junk |-> FALSE]

CovLine(ts, roundno, cov, ft) ==
  [kind |-> "cov", ts |-> ts, exit |-> FALSE, junk |-> FALSE,
   roundno |-> roundno, cov |-> cov, ft |-> ft]

CrashLine(ts, crash) ==
  [kind |-> "crash", ts |-> ts, exit |-> FALSE, junk |-> FALSE, crash |-> crash]

ArtifactLine(ts, artifact) ==
  [kind |-> "artifact", ts |-> ts, exit |-> FALSE, junk |-> FALSE,
   artifact |-> artifact]

OtherLine(ts) ==
  [kind |-> "other", ts |-> ts, exit |-> FALSE, junk |-> FALSE]

WithExit(line) == [line EXCEPT !.exit = TRUE]

WithJunk(line) == [line EXCEPT !.junk = TRUE]

(* line.decode("utf-8", errors="ignore").strip() *)
Decode(raw) == [raw EXCEPT !.junk = FALSE]

(* FUZZ_START_LINE_PTRN: the banner with its leading timestamp. *)
FUZZ_START_LINE_PTRN(line) == line.kind = "start" /\ line.ts # None

LIBFUZZER_COV_LINE_PTRN(line) == line.kind = "cov" /\ line.ts # None

OLD_LIBFUZZER_COV_LINE_PTRN(line) == line.kind = "cov" /\ line.ts = None

LIBFUZZER_CRASH_LINE_PTRN(line) == line.kind = "crash" /\ line.ts # None

OLD_LIBFUZZER_CRASH_LINE_PTRN(line) == line.kind = "crash" /\ line.ts = None

CRASH_ARTIFACT_LINE_PTRN(line) == line.kind = "artifact" /\ line.ts # None

OLD_CRASH_ARTIFACT_LINE_PTRN(line) == line.kind = "artifact" /\ line.ts = None

(* Faulty variant of ElapsedTime: without a baseline, the timestamp itself. *)
ElapsedTimeOrStamp(timestamp, initial_timestamp) ==
  IF initial_timestamp # None THEN Some(timestamp - initial_timestamp[1])
  ELSE Some(timestamp)

(* timestamp - initial_timestamp if initial_timestamp is not None else None *)
ElapsedTime(timestamp, initial_timestamp) ==
  IF initial_timestamp # None THEN Some(timestamp - initial_timestamp[1])
  ELSE None

(* The parsers return None (no match) or a tuple. *)
_parse_cov_line(line, initial_timestamp) ==
  IF LIBFUZZER_COV_LINE_PTRN(line)
  THEN << line.roundno, ElapsedTime(line.ts[1], initial_timestamp),
          line.cov, line.ft >>
  ELSE IF OLD_LIBFUZZER_COV_LINE_PTRN(line)
  THEN << line.roundno, None, line.cov, line.ft >>
  ELSE None

_parse_crash_line(line, initial_timestamp) ==
  IF LIBFUZZER_CRASH_LINE_PTRN(line)
  THEN << ElapsedTime(line.ts[1], initial_timestamp), line.crash >>
  ELSE IF OLD_LIBFUZZER_CRASH_LINE_PTRN(line)
  THEN << None, line.crash >>
  ELSE None

(* Faulty variant of _parse_artifact_line: the legacy format is not recognised. *)
_parse_artifact_line_stamped_only(line, initial_timestamp) ==
  IF CRASH_ARTIFACT_LINE_PTRN(line)
  THEN << ElapsedTime(line.ts[1], initial_timestamp), line.artifact >>
  ELSE None

_parse_artifact_line(line, initial_timestamp) ==
  IF CRASH_ARTIFACT_LINE_PTRN(line)
  THEN << ElapsedTime(line.ts[1], initial_timestamp), line.artifact >>
  ELSE IF OLD_CRASH_ARTIFACT_LINE_PTRN(line)
  THEN << None, line.artifact >>
  ELSE None

(***************************************************************************)
(* The locals of parse_log_in_stream.  fuzz_statuses and all_fuzz_statuses  *)
(* are written and never read, and are left out.                             *)
(***************************************************************************)
InitLocals ==
  [cov_over_time |-> << >>,
   ft_over_time |-> << >>,
   log_crash_over_time |-> << >>,
   artifact_over_time |-> << >>,
   log_triage_crash_over_time |-> << >>,
   pending_crashes |-> << >>,
   seen_sanitizers |-> {},
   ttl_round |-> 0,
   last_cov |-> 0, last_ft |-> 0,
   max_cov |-> 0, max_ft |-> 0,
   need_dump |-> FALSE,
   initial_timestamp |-> None,
   ttl_roundno_base |-> 0]

(* Faulty variant of StartStep: every start line asks for a dump. *)
StartStepEveryStart(l, line) ==
  IF FUZZ_START_LINE_PTRN(line)
  THEN [l EXCEPT !.initial_timestamp =
                     IF @ = None THEN Some(line.ts[1]) ELSE @,
                 !.need_dump = TRUE]
  ELSE l

(* Faulty variant of StartStep: every start line moves the baseline. *)
StartStepLastStart(l, line) ==
  IF FUZZ_START_LINE_PTRN(line)
  THEN [l EXCEPT !.initial_timestamp = Some(line.ts[1]),
                 !.need_dump = (l.initial_timestamp = None)]
  ELSE l

(* 1. fuzzer start line: initial timestamp *)
StartStep(l, line) ==
  IF l.initial_timestamp = None /\ FUZZ_START_LINE_PTRN(line)
  THEN [l EXCEPT !.initial_timestamp = Some(line.ts[1]), !.need_dump = TRUE]
  ELSE l

(* Faulty variant of CovStep: max_cov and max_ft follow the last values. *)
CovStepMaxIsLast(l, line) ==
  LET rslt == _parse_cov_line(line, l.initial_timestamp) IN
  IF rslt # None
  THEN [l EXCEPT !.last_cov = rslt[3],
                 !.max_cov = rslt[3],
                 !.last_ft = rslt[4],
                 !.max_ft = rslt[4],
                 !.cov_over_time = Append(@, << rslt[2], rslt[3] >>),
                 !.ft_over_time = Append(@, << rslt[2], rslt[4] >>),
                 !.ttl_round = l.ttl_roundno_base + rslt[1]]
  ELSE l

(* Faulty variant of CovStep: the round number of the line, without the base. *)
CovStepRoundOnly(l, line) ==
  LET rslt == _parse_cov_line(line, l.initial_timestamp) IN
  IF rslt # None
  THEN [l EXCEPT !.last_cov = rslt[3],
                 !.max_cov = Max(l.max_cov, rslt[3]),
                 !.last_ft = rslt[4],
                 !.max_ft = Max(l.max_ft, rslt[4]),
                 !.cov_over_time = Append(@, << rslt[2], rslt[3] >>),
                 !.ft_over_time = Append(@, << rslt[2], rslt[4] >>),
                 !.ttl_round = rslt[1]]
  ELSE l

(* 2. cov line: cov, ft, roundno, timestamp *)
CovStep(l, line) ==
  LET rslt == _parse_cov_line(line, l.initial_timestamp) IN
  IF rslt # None
  THEN [l EXCEPT !.last_cov = rslt[3],
                 !.max_cov = Max(l.max_cov, rslt[3]),
                 !.last_ft = rslt[4],
                 !.max_ft = Max(l.max_ft, rslt[4]),
                 !.cov_over_time = Append(@, << rslt[2], rslt[3] >>),
                 !.ft_over_time = Append(@, << rslt[2], rslt[4] >>),
                 !.ttl_round = l.ttl_roundno_base + rslt[1]]
  ELSE l

(* Faulty variants of NotSeenOrSink: no dedup at all; no SINKPOINT exemption. *)
AlwaysTriage(sanitizer, seen_sanitizers) == TRUE

NotSeen(sanitizer, seen_sanitizers) == sanitizer \notin seen_sanitizers

(* The condition under which a crash may be triaged (lines 235 and 253). *)
NotSeenOrSink(sanitizer, seen_sanitizers) ==
  sanitizer \notin seen_sanitizers \/ sanitizer = "SINKPOINT"

(* Faulty variant of CrashStep: the class of a text depends on the classes  *)
(* triaged before the call.                                                  *)
CrashStepClassBySeen(l, line, env) ==
  LET rslt == _parse_crash_line(line, l.initial_timestamp) IN
  IF rslt # None
  THEN LET sanitizer ==
             IF crash_2_sanitizer(rslt[2], env) \in l.seen_sanitizers
             THEN "UNKNOWN SANITIZER"
             ELSE crash_2_sanitizer(rslt[2], env)
           logged == [l EXCEPT !.log_crash_over_time =
                                   Append(@, << rslt[1], rslt[2] >>)]
       IN IF sanitizer # NoSanitizer
             /\ NotSeenOrSink(sanitizer, l.seen_sanitizers)
          THEN [logged EXCEPT !.pending_crashes =
                                 Append(@, << rslt[1], rslt[2], sanitizer >>)]
          ELSE logged
  ELSE l

(* Faulty variant of CrashStep: a crash without a class is not logged. *)
CrashStepLogClassified(l, line, env) ==
  LET rslt == _parse_crash_line(line, l.initial_timestamp) IN
  IF rslt # None
  THEN LET sanitizer == crash_2_sanitizer(rslt[2], env)
           logged == [l EXCEPT !.log_crash_over_time =
                                   Append(@, << rslt[1], rslt[2] >>)]
       IN IF sanitizer = NoSanitizer THEN l
          ELSE IF NotSeenOrSink(sanitizer, l.seen_sanitizers)
          THEN [logged EXCEPT !.pending_crashes =
                                 Append(@, << rslt[1], rslt[2], sanitizer >>)]
          ELSE logged
  ELSE l

(* 3. crash line: crash, timestamp *)
CrashStep(l, line, env) ==
  LET rslt == _parse_crash_line(line, l.initial_timestamp) IN
  IF rslt # None
  THEN LET sanitizer == crash_2_sanitizer(rslt[2], env)
           logged == [l EXCEPT !.log_crash_over_time =
                                   Append(@, << rslt[1], rslt[2] >>)]
       IN IF sanitizer # NoSanitizer
             /\ NotSeenOrSink(sanitizer, l.seen_sanitizers)
          THEN [logged EXCEPT !.pending_crashes =
                                 Append(@, << rslt[1], rslt[2], sanitizer >>)]
          ELSE logged
  ELSE l

(* Faulty variant of Eligible: an unknown time matches nothing. *)
EligibleKnownOnly(elapsed_time, crash_time) ==
  /\ elapsed_time # None
  /\ crash_time # None
  /\ elapsed_time[1] >= crash_time[1]

(* Faulty variant of Eligible: the next artifact line takes every crash. *)
EligibleAlways(elapsed_time, crash_time) == TRUE

(* Faulty variant of Eligible: a crash of the artifact's own time stays. *)
EligibleStrictlyLater(elapsed_time, crash_time) ==
  \/ elapsed_time = None
  \/ crash_time = None
  \/ elapsed_time[1] > crash_time[1]

(* elapsed_time is None or crash_time is None or elapsed_time >= crash_time *)
Eligible(elapsed_time, crash_time) ==
  \/ elapsed_time = None
  \/ crash_time = None
  \/ elapsed_time[1] >= crash_time[1]

(* Faulty variant of TriagedCrash: the artifact's elapsed time, not the crash's. *)
TriagedCrashAtArtifactTime(p, elapsed_time, artifact) ==
  << elapsed_time, p[3], p[2], artifact >>

(* (crash_time, sanitizer, crash, artifact), from the pending entry p =     *)
(* (crash_time, crash, sanitizer) and the artifact line.                    *)
TriagedCrash(p, elapsed_time, artifact) ==
  << p[1], p[3], p[2], artifact >>

RemoveAt(s, i) == SubSeq(s, 1, i - 1) \o SubSeq(s, i + 1, Len(s))

(* Faulty variant of CheckPending: SINKPOINT is not added to the seen set. *)
RECURSIVE CheckPendingSinkNotSeen(_, _, _, _)
CheckPendingSinkNotSeen(l, i, elapsed_time, artifact) ==
  IF i > Len(l.pending_crashes) THEN l
  ELSE LET p == l.pending_crashes[i]
           t == IF NotSeenOrSink(p[3], l.seen_sanitizers)
                THEN [l EXCEPT
                        !.log_triage_crash_over_time =
                           Append(@, TriagedCrash(p, elapsed_time, artifact)),
                        !.seen_sanitizers = @ \cup ({p[3]} \ {"SINKPOINT"}),
                        !.need_dump = TRUE]
                ELSE l
       IN IF Eligible(elapsed_time, p[1])
          THEN CheckPendingSinkNotSeen(
                 [t EXCEPT !.pending_crashes = RemoveAt(@, i)],
                 i, elapsed_time, artifact)
          ELSE CheckPendingSinkNotSeen(l, i + 1, elapsed_time, artifact)

(* Faulty variant of CheckPending: an eligible crash of a class seen before  *)
(* is left in the queue.                                                     *)
RECURSIVE CheckPendingKeepSeen(_, _, _, _)
CheckPendingKeepSeen(l, i, elapsed_time, artifact) ==
  IF i > Len(l.pending_crashes) THEN l
  ELSE LET p == l.pending_crashes[i] IN
       IF Eligible(elapsed_time, p[1])
          /\ NotSeenOrSink(p[3], l.seen_sanitizers)
       THEN CheckPendingKeepSeen(
              [l EXCEPT !.log_triage_crash_over_time =
                           Append(@, TriagedCrash(p, elapsed_time, artifact)),
                        !.seen_sanitizers = @ \cup {p[3]},
                        !.need_dump = TRUE,
                        !.pending_crashes = RemoveAt(@, i)],
              i, elapsed_time, artifact)
       ELSE CheckPendingKeepSeen(l, i + 1, elapsed_time, artifact)

(* Faulty variant of CheckPending: the index advances after a pop too, so   *)
(* the entry that follows a removed one is not examined.                     *)
RECURSIVE CheckPendingSkipAfterPop(_, _, _, _)
CheckPendingSkipAfterPop(l, i, elapsed_time, artifact) ==
  IF i > Len(l.pending_crashes) THEN l
  ELSE LET p == l.pending_crashes[i]
           t == IF NotSeenOrSink(p[3], l.seen_sanitizers)
                THEN [l EXCEPT !.log_triage_crash_over_time =
                                  Append(@, TriagedCrash(p, elapsed_time, artifact)),
                               !.seen_sanitizers = @ \cup {p[3]},
                               !.need_dump = TRUE]
                ELSE l
       IN IF Eligible(elapsed_time, p[1])
          THEN CheckPendingSkipAfterPop(
                 [t EXCEPT !.pending_crashes = RemoveAt(@, i)],
                 i + 1, elapsed_time, artifact)
          ELSE CheckPendingSkipAfterPop(l, i + 1, elapsed_time, artifact)

(* The while loop over pending_crashes, from index i (1-based here). *)
RECURSIVE CheckPending(_, _, _, _)
CheckPending(l, i, elapsed_time, artifact) ==
  IF i > Len(l.pending_crashes) THEN l
  ELSE LET p == l.pending_crashes[i]
           crash_time == p[1]
           crash == p[2]
           sanitizer == p[3]
       IN IF Eligible(elapsed_time, crash_time)
          THEN LET t == IF NotSeenOrSink(sanitizer, l.seen_sanitizers)
                        THEN [l EXCEPT
                                !.log_triage_crash_over_time =
                                   Append(@, TriagedCrash(p, elapsed_time,
                                                          artifact)),
                                !.seen_sanitizers = @ \cup {sanitizer},
                                !.need_dump = TRUE]
                        ELSE l
               IN CheckPending(
                    [t EXCEPT !.pending_crashes = RemoveAt(@, i)],
                    i, elapsed_time, artifact)
          ELSE CheckPending(l, i + 1, elapsed_time, artifact)

(* 4. artifact line: artifact, timestamp *)
ArtifactStep(l, line) ==
  LET rslt == _parse_artifact_line(line, l.initial_timestamp) IN
  IF rslt # None
  THEN CheckPending(
         [l EXCEPT !.artifact_over_time = Append(@, << rslt[1], rslt[2] >>)],
         1, rslt[1], rslt[2])
  ELSE l

(* Faulty variant of ExitStep: the triage starts again with the run. *)
ExitStepForgetTriage(l, line) ==
  IF line.exit
  THEN [l EXCEPT !.ttl_roundno_base = l.ttl_round,
                 !.pending_crashes = << >>, !.seen_sanitizers = {}]
  ELSE l

(* Faulty variant of ExitStep: the coverage lists start again with the run. *)
ExitStepClearLists(l, line) ==
  IF line.exit
  THEN [l EXCEPT !.ttl_roundno_base = l.ttl_round,
                 !.cov_over_time = << >>, !.ft_over_time = << >>]
  ELSE l

(* Faulty variant of ExitStep: the round base is not advanced. *)
ExitStepNoRebase(l, line) == l

(* 5. exit line: exit log *)
ExitStep(l, line) ==
  IF line.exit THEN [l EXCEPT !.ttl_roundno_base = l.ttl_round] ELSE l

(* The body of the for loop between the tee and sync_result. *)
ParseLine(l, raw, env) ==
  LET line == Decode(raw) IN
  ExitStep(ArtifactStep(CrashStep(CovStep(StartStep(l, line), line),
                                  line, env),
                        line),
           line)

(* The locals after the loop has gone through lines without an error: each *)
(* line is parsed, and a line that set need_dump has it cleared after its    *)
(* dump (lines 274-276).                                                     *)
RECURSIVE RunLines(_, _, _)
RunLines(l, lines, env) ==
  IF lines = << >> THEN l
  ELSE RunLines([ParseLine(l, Head(lines), env) EXCEPT !.need_dump = FALSE],
                Tail(lines), env)

(***************************************************************************)
(* The running script.                                                      *)
(*   env         the environment: JAZZER_SINK_MODE set, --no-tee given, the  *)
(*               I/O faults it can raise ("tee": a write to stdout raises,   *)
(*               stdout being a closed pipe; "dump": the destination cannot  *)
(*               be written), output: -o names a destination, library: the   *)
(*               module is imported and its functions are called, the main   *)
(*               part never runs, existing: the file at the destination      *)
(*               when the script starts                                      *)
(*   file_obj    the lines of the stream not read yet                        *)
(*   consumed    the raw lines read so far (history)                         *)
(*   pc          "start"     the main part begins (script mode)              *)
(*               "loop"      at the head of the for loop                     *)
(*               "sync"      the line is parsed, sync_result is next         *)
(*               "dump"      synced with need_dump set, dump_fuzz_data next  *)
(*               "returned"  parse_log_in_stream returned, the final dump    *)
(*                           of the main part is next (script mode)          *)
(*               "exited"    the script ended with status 0                  *)
(*               "crashed"   the script ended with another status: an        *)
(*                           exception nothing caught, or a failed exit      *)
(*               "killed"    the process was ended from outside              *)
(*   loc         the locals of parse_log_in_stream                           *)
(*   fuzz_data   the caller's dict: has_fields once sync_result has run; its *)
(*               five lists are the very list objects of loc (never copies), *)
(*               its five counters are copies taken by sync_result           *)
(*   tee_out     what was written to stdout: the raw lines of the tee and,   *)
(*               without a destination, the printed documents                *)
(*   out_file    the destination file: the document under its fuzz_data key  *)
(*               and its other top-level keys                                *)
(*   out_obj     the top-level keys other than fuzz_data of the main part's  *)
(*               out_obj dict, as a set of << key, value >>                  *)
(*   sig         the signal the handler was called for, "none" before        *)
(*   caught      the except clause of parse_log_in_stream ran (history)      *)
(*   synced_at   the number of the line of the last sync_result (history)    *)
(*   dump_log    the calls of dump_fuzz_data so far (history)                *)
(*   peer        a second call of parse_log_in_stream running in the same    *)
(*               program on another stream with another dict: its pc,        *)
(*               file_obj, consumed, loc and fuzz_data; NoPeer without one   *)
(***************************************************************************)
VARIABLES env, file_obj, consumed, pc, loc, fuzz_data, tee_out, out_file,
          caught, synced_at, dump_log, out_obj, sig, peer

vars == << env, file_obj, consumed, pc, loc, fuzz_data, tee_out, out_file,
           caught, synced_at, dump_log, out_obj, sig, peer >>

(* No second call of parse_log_in_stream is running. *)
NoPeer == [pc |-> "none"]

EmptyDict == [has_fields |-> FALSE]

(* The destination file: not there yet, cut short by a failed write, or    *)
(* holding the document of the last completed dump.                         *)
NoFile == [state |-> "absent"]

Truncated == [state |-> "truncated"]

(* json.dump(out_obj, f): the keys of obj and doc under "fuzz_data". *)
WrittenIn(obj, doc) == [state |-> "written", doc |-> doc, rest |-> obj]

Written(doc) == WrittenIn({}, doc)

(* sync_result(fuzz_data): data.update({...}) *)
sync_result(l) ==
  [has_fields |-> TRUE,
   ttl_round |-> l.ttl_round,
   last_cov |-> l.last_cov, last_ft |-> l.last_ft,
   max_cov |-> l.max_cov, max_ft |-> l.max_ft]

(* What json.dump(fuzz_data) writes: the lists are read through the        *)
(* references fuzz_data holds, that is, from the live lists.                *)
Document(data, l) ==
  IF data.has_fields
  THEN [cov_over_time |-> l.cov_over_time,
        ft_over_time |-> l.ft_over_time,
        log_crash_over_time |-> l.log_crash_over_time,
        artifact_over_time |-> l.artifact_over_time,
        log_triage_crash_over_time |-> l.log_triage_crash_over_time,
        ttl_round |-> data.ttl_round,
        last_cov |-> data.last_cov, last_ft |-> data.last_ft,
        max_cov |-> data.max_cov, max_ft |-> data.max_ft]
  ELSE EmptyDict

Streams(lines, n) == UNION { [1..k -> lines] : k \in 0..n }

InitWith(envs, lines, n) ==
  /\ env \in envs
  /\ file_obj \in Streams(lines, n)
  /\ consumed = << >>
  /\ pc = "loop"
  /\ loc = InitLocals
  /\ fuzz_data = EmptyDict
  /\ tee_out = << >>
  /\ out_file = NoFile
  /\ caught = FALSE
  /\ synced_at = 0
  /\ dump_log = << >>
  /\ out_obj = {}
  /\ sig = "none"
  /\ peer = NoPeer

(* for line in file_obj: the tee, then the line's extraction and triage.   *)
(* An exception leaves the loop for the except clause of line 281.          *)
ProcessLine ==
  /\ pc = "loop"
  /\ file_obj # << >>
  /\ LET line == Head(file_obj) IN
     /\ file_obj' = Tail(file_obj)
     /\ consumed' = Append(consumed, line)
     /\ \/ /\ tee_out' = IF env.no_tee THEN tee_out ELSE Append(tee_out, line)
           /\ loc' = ParseLine(loc, line, env)
           /\ pc' = "sync"
           /\ UNCHANGED caught
        \/ /\ ~env.no_tee
           /\ "tee" \in env.faults
           /\ pc' = "returned"
           /\ caught' = TRUE
           /\ UNCHANGED << tee_out, loc >>
  /\ UNCHANGED << peer, env, fuzz_data, out_file, synced_at, dump_log, out_obj, sig >>

(* Faulty variant of SyncResult: the dict is updated only on the lines that  *)
(* are dumped.                                                               *)
SyncResultOnDump ==
  /\ pc = "sync"
  /\ fuzz_data' = IF loc.need_dump THEN sync_result(loc) ELSE fuzz_data
  /\ synced_at' = Len(consumed)
  /\ pc' = IF loc.need_dump THEN "dump" ELSE "loop"
  /\ UNCHANGED << peer, env, file_obj, consumed, loc, tee_out, out_file, caught,
                  dump_log, out_obj, sig >>

(* Sync the result *)
SyncResult ==
  /\ pc = "sync"
  /\ fuzz_data' = sync_result(loc)
  /\ synced_at' = Len(consumed)
  /\ pc' = IF loc.need_dump THEN "dump" ELSE "loop"
  /\ UNCHANGED << peer, env, file_obj, consumed, loc, tee_out, out_file, caught,
                  dump_log, out_obj, sig >>

DumpEntry(by, ok) ==
  [line |-> Len(consumed), synced |-> synced_at, by |-> by, ok |-> ok]

(* Faulty variant of dump_fuzz_data: the destination is opened for          *)
(* appending, so what it held stays in front of the new document.            *)
dump_fuzz_data_appending(by) ==
  /\ out_file' = [state |-> "written", doc |-> Document(fuzz_data, loc),
                  rest |-> out_obj, before |-> out_file]
  /\ dump_log' = Append(dump_log, DumpEntry(by, TRUE))
  /\ UNCHANGED tee_out

(* dump_fuzz_data() returning: with a destination, out_obj with the        *)
(* document under "fuzz_data" replaces the file; without one, the document  *)
(* is printed.                                                               *)
dump_fuzz_data(by) ==
  /\ IF env.output
     THEN /\ out_file' = WrittenIn(out_obj, Document(fuzz_data, loc))
          /\ UNCHANGED tee_out
     ELSE /\ tee_out' = Append(tee_out, [kind |-> "dump",
                                         doc |-> Document(fuzz_data, loc)])
          /\ UNCHANGED out_file
  /\ dump_log' = Append(dump_log, DumpEntry(by, TRUE))

(* dump_fuzz_data() raising: open(args.output, "w") fails and the file is   *)
(* as it was, or it has emptied the file and json.dump fails.                *)
dump_fuzz_data_raises(by) ==
  /\ env.output
  /\ "dump" \in env.faults
  /\ out_file' \in {out_file, Truncated}
  /\ dump_log' = Append(dump_log, DumpEntry(by, FALSE))
  /\ UNCHANGED tee_out

(* if need_dump: dump_fuzz_data(); need_dump = False.  The name             *)
(* dump_fuzz_data is bound by the main part only: in an importing program    *)
(* the call raises NameError.                                                *)
DumpInLoop ==
  /\ pc = "dump"
  /\ \/ /\ ~env.library
        /\ dump_fuzz_data("loop")
        /\ loc' = [loc EXCEPT !.need_dump = FALSE]
        /\ pc' = "loop"
        /\ UNCHANGED caught
     \/ /\ ~env.library
        /\ dump_fuzz_data_raises("loop")
        /\ pc' = "returned"
        /\ caught' = TRUE
        /\ UNCHANGED loc
     \/ /\ env.library
        /\ dump_log' = Append(dump_log, DumpEntry("loop", FALSE))
        /\ pc' = "returned"
        /\ caught' = TRUE
        /\ UNCHANGED << loc, out_file, tee_out >>
  /\ UNCHANGED << peer, env, file_obj, consumed, fuzz_data, synced_at, out_obj, sig >>

(* Faulty variant of EndOfStream: the dict is synced once more on return. *)
EndOfStreamSynced ==
  /\ pc = "loop"
  /\ file_obj = << >>
  /\ pc' = "returned"
  /\ fuzz_data' = sync_result(loc)
  /\ UNCHANGED << peer, env, file_obj, consumed, loc, tee_out, out_file,
                  caught, synced_at, dump_log, out_obj, sig >>

(* The stream is exhausted: the for loop ends and the function returns. *)
EndOfStream ==
  /\ pc = "loop"
  /\ file_obj = << >>
  /\ pc' = "returned"
  /\ UNCHANGED << peer, env, file_obj, consumed, loc, fuzz_data, tee_out, out_file,
                  caught, synced_at, dump_log, out_obj, sig >>

(* The main part: parse_log_in_stream(...) and then dump_fuzz_data(). *)
FinalDump ==
  /\ pc = "returned"
  /\ ~env.library
  /\ \/ /\ dump_fuzz_data("main")
        /\ pc' = "exited"
     \/ /\ dump_fuzz_data_raises("main")
        /\ pc' = "crashed"
  /\ UNCHANGED << peer, env, file_obj, consumed, loc, fuzz_data, caught, synced_at,
                  out_obj, sig >>

Next ==
  \/ ProcessLine
  \/ SyncResult
  \/ DumpInLoop
  \/ EndOfStream
  \/ FinalDump

(***************************************************************************)
(* The main part around the loop (script mode).                             *)
(***************************************************************************)

(* Faulty variant of Startup: the file found at the destination is not      *)
(* loaded.                                                                   *)
StartupWithoutLoad ==
  /\ pc = "start"
  /\ IF ~env.output \/ out_file.state = "truncated"
     THEN /\ pc' = "crashed"
          /\ UNCHANGED out_obj
     ELSE /\ pc' = "loop"
          /\ out_obj' = {}
  /\ UNCHANGED << peer, env, file_obj, consumed, loc, fuzz_data, tee_out, out_file,
                  caught, synced_at, dump_log, sig >>

(* out_obj = {}; if os.path.exists(args.output): out_obj = json.load(f).    *)
(* Without -o, args.output is None and os.path.exists(None) raises           *)
(* TypeError; a file that is no JSON document makes json.load raise.  Then   *)
(* the handlers are installed and the stream is parsed.                      *)
Startup ==
  /\ pc = "start"
  /\ IF ~env.output \/ out_file.state = "truncated"
     THEN /\ pc' = "crashed"
          /\ UNCHANGED out_obj
     ELSE /\ pc' = "loop"
          /\ out_obj' = IF out_file.state = "written" THEN out_file.rest ELSE {}
  /\ UNCHANGED << peer, env, file_obj, consumed, loc, fuzz_data, tee_out, out_file,
                  caught, synced_at, dump_log, sig >>

(* signal.signal(...): SIGINT, SIGTERM and SIGPIPE call signal_handler. *)
Signals == {"SIGINT", "SIGTERM", "SIGPIPE"}

(* The handlers are installed and the script has not ended. *)
Running == ~env.library /\ pc \in {"loop", "sync", "dump", "returned"}

(* signal_handler(sig, frame): print("... Exiting..."), dump_fuzz_data(),   *)
(* sys.exit(0).  An exception of the handler surfaces in the interrupted     *)
(* code: inside parse_log_in_stream the except clause of line 281 takes it,  *)
(* in the main part nothing does.  With stdout a closed pipe either the      *)
(* print raises (unbuffered stdout; the print of the except clause raises    *)
(* too), or the text stays in the buffer, the dump is done and the flush at  *)
(* exit fails, which ends the process with a status other than 0.            *)
signal_handler(s) ==
  /\ Running
  /\ sig = "none"
  /\ sig' = s
  /\ \/ /\ dump_fuzz_data("signal")
        /\ pc' = "exited"
        /\ UNCHANGED caught
     \/ /\ dump_fuzz_data_raises("signal")
        /\ pc' = IF pc = "returned" THEN "crashed" ELSE "returned"
        /\ caught' = (caught \/ pc # "returned")
     \/ /\ "tee" \in env.faults
        /\ pc' = "crashed"
        /\ \/ UNCHANGED << out_file, tee_out, dump_log >>
           \/ dump_fuzz_data("signal")
        /\ UNCHANGED caught
  /\ UNCHANGED << peer, env, file_obj, consumed, loc, fuzz_data, synced_at, out_obj >>

(* The process is ended from outside (SIGKILL, power loss).  Inside         *)
(* dump_fuzz_data that can be between open(args.output, "w"), which empties  *)
(* the file, and the end of json.dump.                                       *)
Kill ==
  /\ Running
  /\ pc' = "killed"
  /\ out_file' \in IF env.output /\ pc \in {"dump", "returned"}
                   THEN {out_file, Truncated}
                   ELSE {out_file}
  /\ UNCHANGED << peer, env, file_obj, consumed, loc, fuzz_data, tee_out, caught,
                  synced_at, dump_log, out_obj, sig >>

NextScript ==
  \/ Startup
  \/ ProcessLine
  \/ SyncResult
  \/ DumpInLoop
  \/ EndOfStream
  \/ FinalDump
  \/ \E s \in Signals : signal_handler(s)
  \/ Kill

(* What an importing program runs: parse_log_in_stream alone. *)
NextLibrary ==
  \/ ProcessLine
  \/ SyncResult
  \/ DumpInLoop
  \/ EndOfStream

(***************************************************************************)
(* Crash texts of the streams.                                              *)
(***************************************************************************)
SqlLabel == SANITIZERS[5]

(* "== Java Exception: com.code_intelligence...High: SQL Injection ..." *)
SqlText == CrashText("a", TRUE, FALSE, FALSE, FALSE, {SqlLabel}, {})

(* The older banner of the same class: the label without its spaces. *)
SqlOldText == CrashText("b", TRUE, FALSE, FALSE, FALSE, {}, {SqlLabel})

(* A finding of the sanitizer layer that names no catalog label. *)
UnknownText == CrashText("c", TRUE, FALSE, FALSE, FALSE, {}, {})

NoFaultsEnv(sink) ==
  [JAZZER_SINK_MODE |-> sink, no_tee |-> FALSE, faults |-> {},
   output |-> TRUE, library |-> FALSE, existing |-> NoFile]

(***************************************************************************)
(* Spec: crash and artifact lines of non-SINKPOINT classes, with timestamps *)
(* that let an artifact line be older than a pending crash.                  *)
(***************************************************************************)
MaxLines == 5

TriageLines ==
  { StartLine(Some(10)),
    CrashLine(Some(12), SqlText), CrashLine(Some(18), SqlOldText),
    CrashLine(Some(12), UnknownText),
    ArtifactLine(Some(15), "crash-a"), ArtifactLine(None, "crash-b") }

Init == InitWith({NoFaultsEnv(FALSE)}, TriageLines, MaxLines)

Spec == Init /\ [][Next]_vars

(***************************************************************************)
(* SpecFaults: the environment can fail a write to stdout and a write of    *)
(* the destination file; lines can carry bytes the decoder drops.            *)
(***************************************************************************)
MaxFaultLines == 4

FaultLines ==
  { StartLine(Some(10)),
    WithJunk(CovLine(Some(11), 1, 7, 3)),
    CrashLine(Some(12), SqlText),
    ArtifactLine(Some(15), "crash-a"),
    WithJunk(OtherLine(None)) }

FaultEnvs ==
  { [JAZZER_SINK_MODE |-> FALSE, no_tee |-> t, faults |-> {"tee", "dump"},
     output |-> TRUE, library |-> FALSE, existing |-> NoFile] :
      t \in BOOLEAN }

InitFaults == InitWith(FaultEnvs, FaultLines, MaxFaultLines)

SpecFaults == InitFaults /\ [][Next]_vars

(***************************************************************************)
(* Reading a stream apart from the program: the whole stream, the places of *)
(* its lines of some kinds, and the elapsed time a line is due.              *)
(***************************************************************************)
Stream == consumed \o file_obj

RECURSIVE Positions(_, _, _)
Positions(s, kinds, i) ==
  IF i > Len(s) THEN << >>
  ELSE (IF s[i].kind \in kinds THEN << i >> ELSE << >>)
       \o Positions(s, kinds, i + 1)

CrashArtifactPositions(s) == Positions(s, {"crash", "artifact"}, 1)

StampedStarts(s, i) == { j \in 1..(i - 1) : s[j].kind = "start" /\ s[j].ts # None }

(* The elapsed time line i of s is due: unknown without a timestamp or     *)
(* before the first stamped start line.                                     *)
DueElapsed(s, i) ==
  IF s[i].ts = None \/ StampedStarts(s, i) = {} THEN None
  ELSE LET first == CHOOSE j \in StampedStarts(s, i) :
                       \A k \in StampedStarts(s, i) : j <= k
       IN Some(s[i].ts[1] - s[first].ts[1])

(* Artifact line a of s may take the crash of line c. *)
DueEligible(s, a, c) ==
  \/ DueElapsed(s, a) = None
  \/ DueElapsed(s, c) = None
  \/ DueElapsed(s, a)[1] >= DueElapsed(s, c)[1]

Triage == loc.log_triage_crash_over_time

Final == pc = "exited"

(***************************************************************************)
(* C1: at every point of processing, log_triage_crash_over_time holds at    *)
(* most one entry of each sanitizer class other than SINKPOINT, the          *)
(* sentinel "UNKNOWN SANITIZER" included.                                    *)
(***************************************************************************)
C1_AtMostOnePerClass ==
  \A i, j \in DOMAIN Triage :
    (Triage[i][2] = Triage[j][2] /\ Triage[i][2] # "SINKPOINT") => i = j

(* Three crashes of two classes met their artifact: both classes triaged    *)
(* once, the repeated one discarded.                                         *)
C1_Witness ==
  /\ Len(Triage) = 2
  /\ Len(loc.log_crash_over_time) = 3
  /\ loc.pending_crashes = << >>
  /\ "UNKNOWN SANITIZER" \in loc.seen_sanitizers
  /\ SqlLabel \in loc.seen_sanitizers

(***************************************************************************)
(* SpecRepeat: one crash text, stamped before and after the artifact line.  *)
(***************************************************************************)
MaxRepeatLines == 5

RepeatLines ==
  { StartLine(Some(10)),
    CrashLine(Some(12), SqlText), CrashLine(Some(18), SqlText),
    ArtifactLine(Some(15), "crash-a"), ArtifactLine(None, "crash-b") }

InitRepeat == InitWith({NoFaultsEnv(FALSE)}, RepeatLines, MaxRepeatLines)

SpecRepeat == InitRepeat /\ [][Next]_vars

(***************************************************************************)
(* C3.  The stream holds two crash lines of one text, of a class that is    *)
(* neither None nor SINKPOINT, and after them two artifact lines with        *)
(* different ids; start lines may stand anywhere.                            *)
(***************************************************************************)
C3_Shape ==
  LET p == CrashArtifactPositions(Stream) IN
  /\ Len(p) = 4
  /\ Stream[p[1]].kind = "crash" /\ Stream[p[2]].kind = "crash"
  /\ Stream[p[3]].kind = "artifact" /\ Stream[p[4]].kind = "artifact"
  /\ Stream[p[1]].crash = Stream[p[2]].crash
  /\ crash_2_sanitizer(Stream[p[1]].crash, env) \notin {NoSanitizer, "SINKPOINT"}
  /\ Stream[p[3]].artifact # Stream[p[4]].artifact

C3_Outcome ==
  LET p == CrashArtifactPositions(Stream)
      first == << DueElapsed(Stream, p[1]),
                  crash_2_sanitizer(Stream[p[1]].crash, env),
                  Stream[p[1]].crash, Stream[p[3]].artifact >>
  IN /\ Len(consumed) < p[3] => Triage = << >>
     /\ Len(consumed) >= p[3] => Triage = << first >>
     /\ (Len(consumed) >= p[4]
         /\ (DueEligible(Stream, p[3], p[2]) \/ DueEligible(Stream, p[4], p[2])))
        => loc.pending_crashes = << >>

(* C3 as stated: in such a stream the first artifact line triages the first *)
(* crash with the first artifact id, the second crash is removed without     *)
(* output, and the second artifact line triages nothing.                     *)
C3_AsStated == C3_Shape => C3_Outcome

(* C3 as amended: the same, provided the first crash is eligible for the    *)
(* first artifact line (one of the two elapsed times unknown, or the         *)
(* artifact's not before the crash's); the second crash is removed by the    *)
(* first artifact line it is eligible for.                                   *)
C3_SameTextTwice ==
  (C3_Shape /\ LET p == CrashArtifactPositions(Stream)
               IN DueEligible(Stream, p[3], p[1]))
  => C3_Outcome

(* Both artifact lines are read, after a stamped start line. *)
C3_Witness ==
  /\ C3_Shape
  /\ Final
  /\ loc.initial_timestamp # None
  /\ LET p == CrashArtifactPositions(Stream)
     IN DueEligible(Stream, p[3], p[1]) /\ DueElapsed(Stream, p[1]) # None
  /\ Len(Triage) = 1

(* The calls of dump_fuzz_data made in the loop at the end of line i, the  *)
(* lines whose loop body is over, and the lines that are due a dump.         *)
LoopDumps(i) ==
  { k \in DOMAIN dump_log : dump_log[k].by = "loop" /\ dump_log[k].line = i }

LinesDone == IF pc \in {"sync", "dump"} THEN Len(consumed) - 1 ELSE Len(consumed)

IsFirstStart(i) ==
  /\ FUZZ_START_LINE_PTRN(Decode(consumed[i]))
  /\ \A j \in 1..(i - 1) : ~FUZZ_START_LINE_PTRN(Decode(consumed[j]))

TriagedOn(i) ==
  /\ consumed[i].kind = "artifact"
  /\ Len(RunLines(InitLocals, SubSeq(consumed, 1, i), env)
           .log_triage_crash_over_time)
     > Len(RunLines(InitLocals, SubSeq(consumed, 1, i - 1), env)
             .log_triage_crash_over_time)

(***************************************************************************)
(* C10: in the loop dump_fuzz_data is called at the end of a line exactly   *)
(* when the line is the first matched start line or an artifact line that    *)
(* appended a TriagedCrash; at most once a line, after that line's sync;     *)
(* and need_dump is false at the head of the loop.                           *)
(***************************************************************************)
C10_DumpIffMilestone ==
  /\ \A i \in 1..LinesDone :
       Cardinality(LoopDumps(i)) = IF IsFirstStart(i) \/ TriagedOn(i) THEN 1 ELSE 0
  /\ \A i \in 1..Len(consumed) : Cardinality(LoopDumps(i)) <= 1
  /\ \A k \in DOMAIN dump_log :
       dump_log[k].by = "loop" => dump_log[k].synced = dump_log[k].line
  /\ pc = "dump" =>
       /\ synced_at = Len(consumed)
       /\ IsFirstStart(Len(consumed)) \/ TriagedOn(Len(consumed))
  /\ pc = "loop" => ~loc.need_dump

(* A start line and a triaging artifact line were dumped, two other lines   *)
(* were not, and a later start line went by without a dump.                  *)
C10_Witness ==
  /\ pc = "loop"
  /\ Len(consumed) = 5
  /\ Cardinality({ k \in DOMAIN dump_log : dump_log[k].by = "loop" }) = 2
  /\ LoopDumps(1) # {} /\ LoopDumps(5) = {}
  /\ consumed[5].kind = "start"
  /\ Len(Triage) = 1

(***************************************************************************)
(* SpecSink: sink mode is on; crash lines carry the sink-hit marker.        *)
(***************************************************************************)
MaxSinkLines == 5

(* A sink hit outside the sanitizer layer, and one that also names a label. *)
SinkText == CrashText("s", FALSE, FALSE, FALSE, TRUE, {}, {})

SinkSqlText == CrashText("t", TRUE, FALSE, FALSE, TRUE, {SqlLabel}, {})

SinkLines ==
  { StartLine(Some(10)),
    CrashLine(Some(12), SinkText), CrashLine(Some(12), SinkSqlText),
    CrashLine(Some(18), SinkSqlText),
    ArtifactLine(Some(15), "crash-a"), ArtifactLine(None, "crash-b") }

InitSink == InitWith({NoFaultsEnv(TRUE)}, SinkLines, MaxSinkLines)

SpecSink == InitSink /\ [][Next]_vars

(***************************************************************************)
(* C2.  The crash and artifact lines of the stream alternate, crash first,  *)
(* and every crash is a sink hit; start lines may stand anywhere.            *)
(***************************************************************************)
C2_Shape ==
  LET p == CrashArtifactPositions(Stream) IN
  /\ env.JAZZER_SINK_MODE
  /\ Len(p) >= 2 /\ Len(p) % 2 = 0
  /\ \A i \in 1..(Len(p) \div 2) :
       /\ Stream[p[2 * i - 1]].kind = "crash"
       /\ Stream[p[2 * i - 1]].crash.beep
       /\ Stream[p[2 * i]].kind = "artifact"

(* The pairs whose artifact line has been read, and the entries due. *)
C2_PairsRead ==
  LET p == CrashArtifactPositions(Stream) IN
  Cardinality({ i \in 1..(Len(p) \div 2) : p[2 * i] <= Len(consumed) })

C2_Outcome ==
  LET p == CrashArtifactPositions(Stream) IN
  Triage = [ i \in 1..C2_PairsRead |->
               << DueElapsed(Stream, p[2 * i - 1]), "SINKPOINT",
                  Stream[p[2 * i - 1]].crash, Stream[p[2 * i]].artifact >> ]

(* C2 as stated: with sink mode on, k SINKPOINT crash lines each followed   *)
(* by an artifact line give k SINKPOINT entries, the i-th with the i-th      *)
(* crash text and the i-th artifact id.                                      *)
C2_AsStated == C2_Shape => C2_Outcome

(* C2 as amended: the same, provided every artifact line is eligible for    *)
(* its crash (one of the two elapsed times unknown, or the artifact's not    *)
(* before the crash's).                                                      *)
C2_SinkPairs ==
  (C2_Shape /\ LET p == CrashArtifactPositions(Stream)
               IN \A i \in 1..(Len(p) \div 2) :
                    DueEligible(Stream, p[2 * i], p[2 * i - 1]))
  => C2_Outcome

(* Two sink hits with known elapsed times were triaged one after the other. *)
C2_Witness ==
  /\ C2_Shape
  /\ Final
  /\ Len(Triage) = 2
  /\ Triage[1][1] # None /\ Triage[2][1] # None
  /\ Triage[1][2] = "SINKPOINT" /\ Triage[2][2] = "SINKPOINT"
  /\ Triage[1][3] # Triage[2][3]
  /\ Triage[1][4] # Triage[2][4]

(***************************************************************************)
(* SpecScenario: streams over the four lines of the scenario of section 8.  *)
(***************************************************************************)
MaxScenarioLines == 4

Scenario ==
  << StartLine(Some(1000)),
     CovLine(Some(1010), 5, 100, 50),
     CrashLine(Some(1015), SqlText),
     ArtifactLine(Some(1020), "crash-abc123") >>

ScenarioLines == { Scenario[i] : i \in DOMAIN Scenario }

InitScenario == InitWith({NoFaultsEnv(FALSE)}, ScenarioLines, MaxScenarioLines)

SpecScenario == InitScenario /\ [][Next]_vars

(***************************************************************************)
(* C4: for the four-line stream the final summary has cov_over_time =       *)
(* [(10,100)], ft_over_time = [(10,50)], one entry in log_crash_over_time,   *)
(* and one TriagedCrash of class SQL Injection with artifact crash-abc123    *)
(* and the crash's elapsed time 15.                                          *)
(***************************************************************************)
C4_Scenario ==
  (Stream = Scenario /\ Final) =>
    /\ out_file.state = "written"
    /\ out_file.doc.cov_over_time = << << Some(10), 100 >> >>
    /\ out_file.doc.ft_over_time = << << Some(10), 50 >> >>
    /\ Len(out_file.doc.log_crash_over_time) = 1
    /\ out_file.doc.log_triage_crash_over_time =
         << << Some(15), "FuzzerSecurityIssueHigh: SQL Injection", SqlText,
               "crash-abc123" >> >>

C4_Witness ==
  /\ Stream = Scenario
  /\ Final
  /\ file_obj = << >>
  /\ Len(dump_log) = 3

(***************************************************************************)
(* SpecLegacy: streams of legacy lines only (no line has a timestamp).      *)
(***************************************************************************)
MaxLegacyLines == 4

LegacyLines ==
  { StartLine(None),
    CovLine(None, 1, 7, 3), CovLine(None, 2, 5, 4),
    CrashLine(None, SqlText),
    ArtifactLine(None, "crash-a"),
    WithExit(OtherLine(None)) }

InitLegacy == InitWith({NoFaultsEnv(FALSE)}, LegacyLines, MaxLegacyLines)

SpecLegacy == InitLegacy /\ [][Next]_vars

(* The timestamps given to the lines of the timestamped form of a stream. *)
TimeStamps == {10, 20}

Stamped(s, f) == [ i \in DOMAIN s |-> [s[i] EXCEPT !.ts = Some(f[i])] ]

Firsts(list) == [ i \in DOMAIN list |-> list[i][1] ]

Seconds(list) == [ i \in DOMAIN list |-> list[i][2] ]

(* Every output field but the elapsed times. *)
Shown(l) ==
  [cov |-> Seconds(l.cov_over_time),
   ft |-> Seconds(l.ft_over_time),
   crash |-> Seconds(l.log_crash_over_time),
   artifact |-> Seconds(l.artifact_over_time),
   triage |-> [ i \in DOMAIN l.log_triage_crash_over_time |->
                  Tail(l.log_triage_crash_over_time[i]) ],
   ttl_round |-> l.ttl_round,
   last_cov |-> l.last_cov, last_ft |-> l.last_ft,
   max_cov |-> l.max_cov, max_ft |-> l.max_ft]

NullTimes(list) == \A i \in DOMAIN list : list[i][1] = None

AllNull(l) ==
  /\ NullTimes(l.cov_over_time)
  /\ NullTimes(l.ft_over_time)
  /\ NullTimes(l.log_crash_over_time)
  /\ NullTimes(l.artifact_over_time)
  /\ NullTimes(l.log_triage_crash_over_time)

(* No artifact line is stamped before a crash line that precedes it. *)
ArtifactsNotBeforeCrashes(s, f) ==
  \A i, j \in DOMAIN s :
    (i < j /\ s[i].kind = "crash" /\ s[j].kind = "artifact") => f[j] >= f[i]

C5_SameAsStamped(f) ==
  Shown(RunLines(InitLocals, Stamped(consumed, f), env)) = Shown(loc)

(* C5 as stated: a legacy-only stream is processed without error, every     *)
(* elapsed time is null, and every other output field equals that of the     *)
(* same events in the timestamped format.                                    *)
C5_AsStated ==
  Final =>
    /\ ~caught
    /\ AllNull(loc)
    /\ \A f \in [DOMAIN consumed -> TimeStamps] : C5_SameAsStamped(f)

(* C5 as amended: the same, for the timestamped streams in which no         *)
(* artifact line carries a timestamp smaller than that of a crash line       *)
(* before it.                                                                *)
C5_LegacyTolerance ==
  Final =>
    /\ ~caught
    /\ AllNull(loc)
    /\ \A f \in [DOMAIN consumed -> TimeStamps] :
         ArtifactsNotBeforeCrashes(consumed, f) => C5_SameAsStamped(f)

(* A legacy stream with a start banner, coverage, a crash and its artifact. *)
C5_Witness ==
  /\ Final
  /\ Len(consumed) = 4
  /\ consumed[1].kind = "start"
  /\ Len(loc.cov_over_time) = 1
  /\ Len(Triage) = 1
  /\ Triage[1][1] = None

(***************************************************************************)
(* SpecRounds: coverage lines with rounds 1..MaxRound, exit markers and     *)
(* start lines.                                                              *)
(***************************************************************************)
MaxRound == 3

MaxRoundLines == 5

RoundLines ==
  { CovLine(None, r, 7, 3) : r \in 1..MaxRound }
  \cup { WithExit(OtherLine(None)), StartLine(Some(10)) }

InitRounds == InitWith({NoFaultsEnv(FALSE)}, RoundLines, MaxRoundLines)

SpecRounds == InitRounds /\ [][Next]_vars

(* The stream is a run with rounds 1..n1, the exit marker, a run 1..n2. *)
TwoRuns(n1, n2) ==
  /\ Len(Stream) = n1 + 1 + n2
  /\ \A i \in 1..n1 :
       Stream[i].kind = "cov" /\ Stream[i].roundno = i /\ ~Stream[i].exit
  /\ Stream[n1 + 1].kind # "cov" /\ Stream[n1 + 1].exit
  /\ \A i \in 1..n2 :
       /\ Stream[n1 + 1 + i].kind = "cov"
       /\ Stream[n1 + 1 + i].roundno = i
       /\ ~Stream[n1 + 1 + i].exit

(***************************************************************************)
(* C6: over two consecutive runs with rounds 1..N1 and 1..N2 ttl_round      *)
(* never decreases, across the run boundary too, and ends at N1 + N2.        *)
(***************************************************************************)
C6_MonotonicRounds ==
  [][ \A n1, n2 \in 0..Len(Stream) :
        TwoRuns(n1, n2) =>
          /\ loc'.ttl_round >= loc.ttl_round
          /\ (fuzz_data.has_fields /\ fuzz_data'.has_fields)
               => fuzz_data'.ttl_round >= fuzz_data.ttl_round
          /\ pc' = "exited" =>
               /\ out_file'.doc.ttl_round = n1 + n2
               /\ loc'.ttl_round = n1 + n2 ]_vars

(* Two runs of two rounds each have been read to the end. *)
C6_Witness ==
  /\ TwoRuns(2, 2)
  /\ Final
  /\ fuzz_data.ttl_round = 4

(* The script is over: after its final dump, or killed by its exception. *)
Ended == pc \in {"exited", "crashed"}

LoopDumpFailed ==
  \E k \in DOMAIN dump_log : dump_log[k].by = "loop" /\ ~dump_log[k].ok

(***************************************************************************)
(* C7 (as stated): with tee on, when no write to stdout failed, the tee     *)
(* output at the end is the whole stream L1..Lk, whether or not a dump       *)
(* failed on some line.                                                      *)
(***************************************************************************)
C7_AsStated ==
  (~env.no_tee /\ Ended /\ tee_out = consumed) => tee_out = Stream

(***************************************************************************)
(* C8 (as stated): when the processing of a line raised an error, the       *)
(* lines after it are still read and processed: at the end no line is left   *)
(* unread, and the aggregate is that of the whole stream but the failing     *)
(* line.                                                                     *)
(***************************************************************************)
C8_AsStated ==
  (caught /\ Ended) => file_obj = << >>

(***************************************************************************)
(* C9 (as stated): after a failed dump attempt in the loop the pipeline     *)
(* keeps consuming the later lines, and the next successful dump holds all   *)
(* events of the stream read so far.                                         *)
(***************************************************************************)
C9_AsStated ==
  (LoopDumpFailed /\ pc = "exited") =>
    /\ Len(consumed) = Len(Stream)
    /\ out_file = Written(Document(fuzz_data, loc))

(***************************************************************************)
(* SpecScript: the script from its start, with or without -o, with a file   *)
(* at the destination or none, with signals and an outside kill.             *)
(***************************************************************************)
MaxScriptLines == 3

ScriptLines ==
  { StartLine(Some(10)),
    CovLine(Some(11), 1, 7, 3),
    CrashLine(Some(12), SqlText),
    ArtifactLine(Some(15), "crash-a") }

(* The top-level keys another program left in the destination file. *)
OtherKeys == { << "harness", "h1" >>, << "cmd", "run" >> }

ExistingFiles == { NoFile, Truncated, WrittenIn(OtherKeys, EmptyDict) }

ScriptEnvs ==
  { [JAZZER_SINK_MODE |-> FALSE, no_tee |-> FALSE, faults |-> f,
     output |-> o, library |-> FALSE, existing |-> e] :
      f \in { {}, {"tee"}, {"dump"} }, o \in BOOLEAN, e \in ExistingFiles }

(* The script is started: nothing is read, the destination is as found. *)
InitScript ==
  /\ env \in { e \in ScriptEnvs : ~e.output => e.existing = NoFile }
  /\ file_obj \in Streams(ScriptLines, MaxScriptLines)
  /\ consumed = << >>
  /\ pc = "start"
  /\ loc = InitLocals
  /\ fuzz_data = EmptyDict
  /\ tee_out = << >>
  /\ out_file = env.existing
  /\ caught = FALSE
  /\ synced_at = 0
  /\ dump_log = << >>
  /\ out_obj = {}
  /\ sig = "none"
  /\ peer = NoPeer

SpecScript == InitScript /\ [][NextScript]_vars

NoDumpFailed == \A k \in DOMAIN dump_log : dump_log[k].ok

(***************************************************************************)
(* C11 (as stated): once the handler was called for SIGINT, SIGTERM or      *)
(* SIGPIPE, at whatever point of processing, and no write of the destination *)
(* failed, the last call of dump_fuzz_data is the handler's and the script   *)
(* has exited with status 0.                                                 *)
(***************************************************************************)
C11_AsStated ==
  (sig # "none" /\ NoDumpFailed) =>
    /\ pc = "exited"
    /\ dump_log # << >>
    /\ dump_log[Len(dump_log)].by = "signal"

(***************************************************************************)
(* C12 (as stated): when the process is ended from outside, at whatever     *)
(* moment, and no write of the destination failed before, the destination    *)
(* file is not a truncated or partly written one: it is the file found at    *)
(* the start or the document of a completed dump.                            *)
(***************************************************************************)
C12_AsStated ==
  (pc = "killed" /\ NoDumpFailed) =>
    \/ out_file = env.existing
    \/ /\ out_file.state = "written"
       /\ \E k \in DOMAIN dump_log : dump_log[k].ok

(* dump_fuzz_data has just returned for the second time in a row with no   *)
(* line read or parsed in between.                                           *)
DumpedAgain ==
  LET n == Len(dump_log) IN
  /\ n >= 1
  /\ Len(dump_log') = n + 1
  /\ dump_log[n].ok /\ dump_log'[n + 1].ok
  /\ dump_log'[n + 1].line = dump_log[n].line
  /\ dump_log'[n + 1].synced = dump_log[n].synced
  /\ dump_log[n].synced = dump_log[n].line

(***************************************************************************)
(* C13: a call of dump_fuzz_data that follows a completed one with no line  *)
(* processed in between leaves the destination file as the first call left   *)
(* it.                                                                       *)
(***************************************************************************)
C13_Idempotent == [][DumpedAgain => out_file' = out_file]_vars

(* The dump of the last line and the final dump of the main part, or the    *)
(* handler's, wrote the document of a stream with a triaged crash twice.     *)
C13_Witness ==
  LET n == Len(dump_log) IN
  /\ n >= 2
  /\ dump_log[n].ok /\ dump_log[n - 1].ok
  /\ dump_log[n].line = dump_log[n - 1].line
  /\ dump_log[n].synced = dump_log[n].line
  /\ out_file.state = "written"
  /\ Len(out_file.doc.log_triage_crash_over_time) = 1

(* The ten fields a reader of the dict finds, against the locals l. *)
HoldsStateOf(data, l) ==
  /\ data.has_fields
  /\ Document(data, loc).cov_over_time = l.cov_over_time
  /\ Document(data, loc).ft_over_time = l.ft_over_time
  /\ Document(data, loc).log_crash_over_time = l.log_crash_over_time
  /\ Document(data, loc).artifact_over_time = l.artifact_over_time
  /\ Document(data, loc).log_triage_crash_over_time = l.log_triage_crash_over_time
  /\ data.ttl_round = l.ttl_round
  /\ data.last_cov = l.last_cov /\ data.last_ft = l.last_ft
  /\ data.max_cov = l.max_cov /\ data.max_ft = l.max_ft

(***************************************************************************)
(* C14: whenever the loop is back at its head after a line, dumped or not,  *)
(* the dict fuzz_data holds the ten summary fields, and their values are     *)
(* those of the locals of the pipeline, which are those the lines read so    *)
(* far give.                                                                 *)
(***************************************************************************)
C14_SyncedAfterLine ==
  (pc = "loop" /\ consumed # << >>) =>
    /\ HoldsStateOf(fuzz_data, loc)
    /\ HoldsStateOf(fuzz_data, RunLines(InitLocals, consumed, env))

(* A start line was dumped and a coverage line after it was not: the dict   *)
(* holds the coverage the file does not.                                     *)
C14_Witness ==
  /\ pc = "loop"
  /\ Len(consumed) = 2
  /\ consumed[2].kind = "cov"
  /\ Len(dump_log) = 1
  /\ fuzz_data.max_cov = 7
  /\ fuzz_data.ttl_round = 1
  /\ out_file.state = "written"
  /\ out_file.doc.max_cov = 0

(***************************************************************************)
(* C15: a destination file that holds a document after the script started   *)
(* on an existing document has every top-level key other than fuzz_data of   *)
(* that document, with its value: the dumps change the value under           *)
(* fuzz_data only.                                                           *)
(***************************************************************************)
C15_OtherKeysKept ==
  (env.existing.state = "written" /\ out_file.state = "written") =>
    out_file.rest = env.existing.rest

(* A dump has replaced the document under fuzz_data of a file that had      *)
(* other keys.                                                               *)
C15_Witness ==
  /\ env.existing.state = "written"
  /\ env.existing.rest = OtherKeys
  /\ out_file.state = "written"
  /\ out_file.rest = OtherKeys
  /\ out_file.doc # env.existing.doc
  /\ \E k \in DOMAIN dump_log : dump_log[k].ok

RECURSIVE DumpsOnStdout(_)
DumpsOnStdout(out) ==
  IF out = << >> THEN 0
  ELSE (IF Head(out).kind = "dump" THEN 1 ELSE 0) + DumpsOnStdout(Tail(out))

(***************************************************************************)
(* C16 (as stated): without -o, and with no I/O fault, the script gets past *)
(* its start and never ends on an exception, and every call of               *)
(* dump_fuzz_data has printed its document to stdout.                        *)
(***************************************************************************)
C16_AsStated ==
  (~env.output /\ env.faults = {} /\ pc # "start") =>
    /\ pc # "crashed"
    /\ DumpsOnStdout(tee_out) = Len(dump_log)

(***************************************************************************)
(* SpecOverflow: crash texts with "Stack overflow (use ", with and without  *)
(* the sink-hit marker, with JAZZER_SINK_MODE set and not set.               *)
(***************************************************************************)
MaxOverflowLines == 4

(* A code_intelligence finding whose text names a catalog label and has     *)
(* "Stack overflow (use ".                                                   *)
OverflowText == CrashText("o", TRUE, TRUE, FALSE, FALSE, {SqlLabel}, {})

(* The same with "BEEP BEEP, sink point" in it. *)
OverflowSinkText == CrashText("p", TRUE, TRUE, FALSE, TRUE, {SqlLabel}, {})

OverflowLines ==
  { StartLine(Some(10)),
    CrashLine(Some(12), OverflowText),
    CrashLine(Some(13), OverflowSinkText),
    CrashLine(Some(14), SqlText),
    ArtifactLine(Some(15), "crash-a") }

InitOverflow ==
  InitWith({NoFaultsEnv(FALSE), NoFaultsEnv(TRUE)}, OverflowLines,
           MaxOverflowLines)

SpecOverflow == InitOverflow /\ [][Next]_vars

(* The crash texts in the pending queue and in the triaged crashes. *)
QueuedTexts == { loc.pending_crashes[i][2] : i \in DOMAIN loc.pending_crashes }

TriagedTexts == { Triage[i][3] : i \in DOMAIN Triage }

ReadCrashTexts ==
  { consumed[i].crash : i \in { j \in DOMAIN consumed : consumed[j].kind = "crash" } }

(***************************************************************************)
(* C17 (as stated): with JAZZER_SINK_MODE set or not, no crash text with    *)
(* "Stack overflow (use " is in the pending queue or in a triaged crash,     *)
(* and none has a sanitizer class.                                           *)
(***************************************************************************)
C17_AsStated ==
  /\ \A c \in QueuedTexts \cup TriagedTexts : ~c.so
  /\ \A c \in ReadCrashTexts : c.so => crash_2_sanitizer(c, env) = NoSanitizer

(***************************************************************************)
(* C17 (amended): a crash text with "Stack overflow (use " gets no class,   *)
(* is not queued and is not triaged, unless JAZZER_SINK_MODE is set and the  *)
(* text has the sink-hit marker: then its class is SINKPOINT.                *)
(***************************************************************************)
C17_OverflowIgnored ==
  /\ \A c \in QueuedTexts \cup TriagedTexts :
       c.so => (env.JAZZER_SINK_MODE /\ c.beep)
  /\ \A c \in ReadCrashTexts :
       c.so => crash_2_sanitizer(c, env) =
                 (IF env.JAZZER_SINK_MODE /\ c.beep THEN "SINKPOINT"
                  ELSE NoSanitizer)

(* A stack overflow crash without the marker met an artifact line and was   *)
(* neither queued nor triaged; it is in the crash log only.                  *)
C17_Witness ==
  /\ Len(consumed) = 3
  /\ consumed[1].kind = "start"
  /\ consumed[2] = CrashLine(Some(12), OverflowText)
  /\ consumed[3].kind = "artifact"
  /\ pc = "loop"
  /\ Len(loc.log_crash_over_time) = 1
  /\ loc.pending_crashes = << >>
  /\ Triage = << >>

(* The text and class of every call of crash_2_sanitizer whose result the  *)
(* pipeline kept: in the pending queue or in a triaged crash.                *)
KeptClasses ==
  { << loc.pending_crashes[i][2], loc.pending_crashes[i][3] >> :
      i \in DOMAIN loc.pending_crashes }
  \cup { << Triage[i][3], Triage[i][2] >> : i \in DOMAIN Triage }

MaxBaselineLines == 4

BaselineLines ==
  { StartLine(Some(10)), StartLine(Some(20)),
    WithExit(OtherLine(Some(21))),
    CovLine(Some(22), 1, 7, 3), CovLine(None, 2, 8, 4),
    CrashLine(Some(24), SqlText),
    ArtifactLine(Some(26), "crash-a") }

InitBaseline == InitWith({NoFaultsEnv(FALSE)}, BaselineLines, MaxBaselineLines)

SpecBaseline == InitBaseline /\ [][Next]_vars

(* The elapsed time the last entry of a list must have after a line that    *)
(* appends to it was parsed against the baseline base.                       *)
AppendedAt(before, after, line, base) ==
  /\ Len(after) = Len(before) + 1
  /\ after[Len(after)][1] =
       (IF line.ts # None THEN Some(line.ts[1] - base[1]) ELSE None)

RecognizedStarts(s) == { j \in DOMAIN s : s[j].kind = "start" /\ s[j].ts # None }

C19_Step ==
  LET base == loc.initial_timestamp
      line == consumed'[Len(consumed')]
  IN /\ base # None => loc'.initial_timestamp = base
     /\ (base = None /\ loc'.initial_timestamp # None) =>
          /\ consumed' # consumed
          /\ line.kind = "start"
          /\ loc'.initial_timestamp = line.ts
          /\ RecognizedStarts(consumed) = {}
     /\ (base # None /\ consumed' # consumed) =>
          /\ line.kind = "cov" =>
               /\ AppendedAt(loc.cov_over_time, loc'.cov_over_time, line, base)
               /\ AppendedAt(loc.ft_over_time, loc'.ft_over_time, line, base)
          /\ line.kind = "crash" =>
               AppendedAt(loc.log_crash_over_time, loc'.log_crash_over_time,
                          line, base)
          /\ line.kind = "artifact" =>
               AppendedAt(loc.artifact_over_time, loc'.artifact_over_time,
                          line, base)

(***************************************************************************)
(* C19: initial_timestamp is set once, by the first recognized start line,  *)
(* and no later step changes it, whatever start lines and exit markers       *)
(* follow; once it is set, the elapsed time of every coverage, crash and     *)
(* artifact entry is the timestamp of its line minus the baseline, and null  *)
(* for a line without a timestamp.                                           *)
(***************************************************************************)
C19_BaselineOnce == [][C19_Step]_vars

(* After the start line of time 10, a start line of time 20 and an exit     *)
(* marker, the coverage line of time 22 has the elapsed time 12.             *)
C19_Witness ==
  /\ Len(consumed) = 4
  /\ consumed[1] = StartLine(Some(10))
  /\ \E i, j \in 2..3 :
       /\ consumed[i] = StartLine(Some(20))
       /\ consumed[j].exit
  /\ pc = "loop"
  /\ loc.initial_timestamp = Some(10)
  /\ loc.cov_over_time = << << Some(12), 7 >> >>

(***************************************************************************)
(* SpecLibrary: an importing program calls parse_log_in_stream (or          *)
(* parse_libfuzzer_log, which opens the file and calls it) with the tee off. *)
(***************************************************************************)
MaxLibraryLines == 4

LibraryLines ==
  { StartLine(Some(10)),
    CovLine(Some(11), 1, 7, 3),
    CrashLine(Some(12), SqlText),
    ArtifactLine(Some(15), "crash-a") }

LibraryEnv ==
  [JAZZER_SINK_MODE |-> FALSE, no_tee |-> TRUE, faults |-> {},
   output |-> FALSE, library |-> TRUE, existing |-> NoFile]

InitLibrary == InitWith({LibraryEnv}, LibraryLines, MaxLibraryLines)

SpecLibrary == InitLibrary /\ [][NextLibrary]_vars

(***************************************************************************)
(* C20 (as stated): when the library function has returned from a stream    *)
(* that is not empty, no line is left unread and fuzz_data holds             *)
(* the coverage, crash and artifact entries and the counters of all lines of *)
(* the stream, those after the first start line and after the first triaged  *)
(* crash included.                                                           *)
(***************************************************************************)
C20_AsStated ==
  (pc = "returned" /\ Stream # << >>) =>
    /\ file_obj = << >>
    /\ HoldsStateOf(fuzz_data, RunLines(InitLocals, Stream, env))

(***************************************************************************)
(* SpecTwo: an importing program runs two calls of parse_log_in_stream at   *)
(* once (two threads), each on its own stream with its own dict.  The names  *)
(* of lines 155-168 and 187-188 are locals of the call.                      *)
(***************************************************************************)
MaxTwoLines == 2

TwoLines ==
  { StartLine(Some(10)),
    CrashLine(Some(12), SqlText),
    ArtifactLine(Some(15), "crash-a") }

(* Faulty variant of PeerLocals: seen_sanitizers is one set of the module,  *)
(* shared by the calls.                                                      *)
PeerLocalsSharedSeen(p) ==
  [p.loc EXCEPT !.seen_sanitizers = @ \cup loc.seen_sanitizers]

(* The locals the second call works on: its own. *)
PeerLocals(p) == p.loc

StartPeer(lines) ==
  [pc |-> "loop", file_obj |-> lines, consumed |-> << >>,
   loc |-> InitLocals, fuzz_data |-> EmptyDict]

(* A step of the second call: the loop head, sync_result, or the call of    *)
(* dump_fuzz_data, which raises NameError here.                              *)
PeerStep ==
  /\ peer.pc \in {"loop", "sync", "dump"}
  /\ peer' =
       IF peer.pc = "loop" /\ peer.file_obj # << >>
       THEN [peer EXCEPT !.file_obj = Tail(@),
                         !.consumed = Append(@, Head(peer.file_obj)),
                         !.loc = ParseLine(PeerLocals(peer),
                                           Head(peer.file_obj), env),
                         !.pc = "sync"]
       ELSE IF peer.pc = "loop"
       THEN [peer EXCEPT !.pc = "returned"]
       ELSE IF peer.pc = "sync"
       THEN [peer EXCEPT !.fuzz_data = sync_result(peer.loc),
                         !.pc = IF peer.loc.need_dump THEN "dump" ELSE "loop"]
       ELSE [peer EXCEPT !.pc = "returned"]
  /\ UNCHANGED << env, file_obj, consumed, pc, loc, fuzz_data, tee_out,
                  out_file, caught, synced_at, dump_log, out_obj, sig >>

NextTwo ==
  \/ ProcessLine
  \/ SyncResult
  \/ DumpInLoop
  \/ EndOfStream
  \/ PeerStep

InitTwo ==
  /\ env = LibraryEnv
  /\ file_obj \in Streams(TwoLines, MaxTwoLines)
  /\ consumed = << >>
  /\ pc = "loop"
  /\ loc = InitLocals
  /\ fuzz_data = EmptyDict
  /\ tee_out = << >>
  /\ out_file = NoFile
  /\ caught = FALSE
  /\ synced_at = 0
  /\ dump_log = << >>
  /\ out_obj = {}
  /\ sig = "none"
  /\ peer \in { StartPeer(lines) : lines \in Streams(TwoLines, MaxTwoLines) }

SpecTwo == InitTwo /\ [][NextTwo]_vars

(* The locals a call ends with when it runs alone in an importing program:  *)
(* the loop ends at the end of the stream or at the first line that asks     *)
(* for a dump.                                                               *)
RECURSIVE RunAlone(_, _, _)
RunAlone(l, lines, e) ==
  IF lines = << >> THEN l
  ELSE LET after == ParseLine(l, Head(lines), e) IN
       IF after.need_dump THEN after ELSE RunAlone(after, Tail(lines), e)

(* The dict a call that ran alone on lines returns with. *)
DictAlone(lines, e) ==
  IF lines = << >> THEN EmptyDict
  ELSE sync_result(RunAlone(InitLocals, lines, e))

(***************************************************************************)
(* C21: when two calls on two streams with two dicts have both returned,    *)
(* however their steps were interleaved, the locals of each (baseline,       *)
(* pending queue, seen set, lists) and its dict are those the call has when  *)
(* it runs alone on its stream.                                              *)
(***************************************************************************)
C21_AsAlone ==
  (pc = "returned" /\ peer.pc = "returned") =>
    /\ loc = RunAlone(InitLocals, Stream, env)
    /\ fuzz_data = DictAlone(Stream, env)
    /\ peer.loc = RunAlone(InitLocals, peer.consumed \o peer.file_obj, env)
    /\ peer.fuzz_data = DictAlone(peer.consumed \o peer.file_obj, env)

(* One call triaged a crash while the other had the same crash text in its  *)
(* pending queue: the second kept it, as it does alone.                      *)
C21_Witness ==
  /\ pc = "returned" /\ peer.pc = "returned"
  /\ Len(Triage) = 1
  /\ SqlLabel \in loc.seen_sanitizers
  /\ Len(peer.consumed) = 2
  /\ Len(peer.loc.pending_crashes) = 2
  /\ peer.loc.seen_sanitizers = {}

(***************************************************************************)
(* SpecQueue: crashes of two classes and sink hits, stamped before and      *)
(* after the artifact line, with JAZZER_SINK_MODE set and not set.           *)
(***************************************************************************)
MaxQueueLines == 4

QueueLines ==
  { StartLine(Some(10)),
    CrashLine(Some(12), SqlText), CrashLine(Some(18), SqlText),
    CrashLine(Some(19), UnknownText),
    CrashLine(Some(13), SinkText),
    ArtifactLine(Some(15), "crash-a") }

InitQueue ==
  InitWith({NoFaultsEnv(FALSE), NoFaultsEnv(TRUE)}, QueueLines, MaxQueueLines)

SpecQueue == InitQueue /\ [][Next]_vars

(* The step reads an artifact line. *)
ArtifactRead ==
  /\ consumed' # consumed
  /\ consumed'[Len(consumed')].kind = "artifact"
  /\ pc' = "sync"

(* The elapsed time of the artifact line the step reads. *)
ArtifactTime ==
  LET line == consumed'[Len(consumed')] IN
  IF line.ts = None \/ loc.initial_timestamp = None THEN None
  ELSE Some(line.ts[1] - loc.initial_timestamp[1])

(* The entry p of the queue is eligible for an artifact of elapsed time t. *)
EligibleFor(t, p) == t = None \/ p[1] = None \/ t[1] >= p[1][1]

Ineligible(p) == ~EligibleFor(ArtifactTime, p)

(***************************************************************************)
(* C22: a step that reads an artifact line leaves in the pending queue the  *)
(* ineligible crashes, all of them and in their order, and nothing else:     *)
(* a crash leaves the queue if and only if the artifact's elapsed time is    *)
(* unknown, or the crash's is, or the artifact's is not below the crash's.   *)
(***************************************************************************)
C22_RemovedIffEligible ==
  [][ArtifactRead =>
       loc'.pending_crashes = SelectSeq(loc.pending_crashes, Ineligible)]_vars

(* Of two queued crashes the artifact line took the one stamped before it   *)
(* and left the one stamped after it.                                        *)
C22_Witness ==
  /\ Len(consumed) = 4
  /\ consumed[1].kind = "start"
  /\ consumed[4].kind = "artifact"
  /\ Len(loc.log_crash_over_time) = 2
  /\ Len(Triage) = 1
  /\ Triage[1][1] = Some(2)
  /\ Len(loc.pending_crashes) = 1
  /\ loc.pending_crashes[1][1] = Some(9)

(* The places of the queue whose crash the artifact line the step reads    *)
(* must triage: the eligible entries whose class is SINKPOINT, or is not     *)
(* in seen_sanitizers and is the class of no eligible entry before them.     *)
MustTriage(i) ==
  LET pend == loc.pending_crashes IN
  /\ EligibleFor(ArtifactTime, pend[i])
  /\ \/ pend[i][3] = "SINKPOINT"
     \/ /\ pend[i][3] \notin loc.seen_sanitizers
        /\ \A j \in 1..(i - 1) :
             ~(EligibleFor(ArtifactTime, pend[j]) /\ pend[j][3] = pend[i][3])

DueTriaged ==
  LET pend == loc.pending_crashes
      places == SelectSeq([i \in 1..Len(pend) |-> i], MustTriage)
      artifact == consumed'[Len(consumed')].artifact
  IN [k \in 1..Len(places) |->
        << pend[places[k]][1], pend[places[k]][3], pend[places[k]][2],
           artifact >>]

(***************************************************************************)
(* C23: a step that reads an artifact line appends one TriagedCrash         *)
(* (crash_time, class, text, artifact id) for each eligible pending crash    *)
(* whose class is SINKPOINT or not yet seen, in queue order, and none for    *)
(* the others; every eligible crash leaves the queue, triaged or not, so a   *)
(* crash is taken by one artifact at most and gives one TriagedCrash at      *)
(* most.                                                                     *)
(***************************************************************************)
C23_TriagedOnceOrDropped ==
  [][ArtifactRead =>
       /\ loc'.log_triage_crash_over_time = Triage \o DueTriaged
       /\ \A i \in DOMAIN loc'.pending_crashes :
            Ineligible(loc'.pending_crashes[i])
       /\ Len(DueTriaged) <= Len(loc.pending_crashes) - Len(loc'.pending_crashes)
     ]_vars

(* Two crashes of one class were eligible for the artifact line: the first  *)
(* was triaged, the second left the queue without a TriagedCrash.            *)
C23_Witness ==
  /\ Len(consumed) = 3
  /\ consumed[1].kind = "crash" /\ consumed[2].kind = "crash"
  /\ consumed[3].kind = "artifact"
  /\ pc = "sync"
  /\ Len(Triage) = 1
  /\ Triage[1][2] = SqlLabel
  /\ Triage[1][4] = "crash-a"
  /\ loc.pending_crashes = << >>
  /\ Len(loc.log_crash_over_time) = 2

TriagedClasses == { Triage[i][2] : i \in DOMAIN Triage }

(***************************************************************************)
(* C24 (as stated): SINKPOINT is never in seen_sanitizers.                  *)
(***************************************************************************)
C24_AsStated == "SINKPOINT" \notin loc.seen_sanitizers

(***************************************************************************)
(* C24 (amended): seen_sanitizers holds the classes of the triaged crashes, *)
(* SINKPOINT among them once a sink hit was triaged; a sink hit is queued    *)
(* all the same, so after any number of SINKPOINT triages the crash of a     *)
(* sink hit line is in the pending queue until an artifact line takes it.    *)
(***************************************************************************)
C24_SeenAreTriaged ==
  /\ loc.seen_sanitizers = TriagedClasses
  /\ (pc = "sync" /\ consumed[Len(consumed)].kind = "crash"
      /\ crash_2_sanitizer(consumed[Len(consumed)].crash, env) = "SINKPOINT")
       => /\ loc.pending_crashes # << >>
          /\ loc.pending_crashes[Len(loc.pending_crashes)][3] = "SINKPOINT"

(* Two sink hits were triaged one after the other, the second with          *)
(* SINKPOINT in seen_sanitizers.                                             *)
C24_Witness ==
  /\ Len(consumed) = 4
  /\ Len(Triage) = 2
  /\ Triage[1][2] = "SINKPOINT" /\ Triage[2][2] = "SINKPOINT"
  /\ consumed[2].kind = "artifact" /\ consumed[4].kind = "artifact"
  /\ loc.seen_sanitizers = {"SINKPOINT"}

(* The lines already through the loop body that are recognized start lines *)
(* with a recognized start line before them.                                 *)
LaterStarts ==
  { i \in 1..LinesDone :
      /\ FUZZ_START_LINE_PTRN(Decode(consumed[i]))
      /\ RecognizedStarts(SubSeq(consumed, 1, i - 1)) # {} }

(***************************************************************************)
(* C25 (as stated): every start line after the first one is followed by a   *)
(* call of dump_fuzz_data at the end of its processing.                      *)
(***************************************************************************)
C25_AsStated == \A i \in LaterStarts : LoopDumps(i) # {}

(* The step reads a recognized start line when the baseline is set. *)
LaterStartRead ==
  /\ consumed' # consumed
  /\ FUZZ_START_LINE_PTRN(Decode(consumed'[Len(consumed')]))
  /\ loc.initial_timestamp # None
  /\ pc' = "sync"

(***************************************************************************)
(* C25 (amended): a start line after the first one leaves the baseline and  *)
(* every other local unchanged and does not ask for a dump; no call of       *)
(* dump_fuzz_data follows it in the loop.  Only the first recognized start   *)
(* line sets need_dump.                                                      *)
(***************************************************************************)
C25_LaterStartNoDump ==
  [][/\ LaterStartRead => (loc' = loc /\ ~loc'.need_dump)
     /\ \A i \in LaterStarts : LoopDumps(i)' = {}]_vars

(* The start line of time 20 went by after the one of time 10: one dump,    *)
(* that of the first line.                                                   *)
C25_Witness ==
  /\ consumed = << StartLine(Some(10)), StartLine(Some(20)) >>
  /\ pc = "loop"
  /\ loc.initial_timestamp = Some(10)
  /\ Len(dump_log) = 1
  /\ dump_log[1].line = 1

(***************************************************************************)
(* SpecLabels: crash texts with two catalog labels, one verbatim and one    *)
(* space-stripped, in both catalog orders, next to texts with one label,     *)
(* with none and with a label in a text that is not interesting.             *)
(***************************************************************************)
MaxLabelLines == 3

OsLabel == SANITIZERS[1]

(* The space-stripped form of the earlier label and the later label verbatim. *)
StrippedEarlyText ==
  CrashText("d", TRUE, FALSE, FALSE, FALSE, {SqlLabel}, {OsLabel})

(* The earlier label verbatim and the space-stripped form of the later one. *)
StrippedLateText ==
  CrashText("e", TRUE, FALSE, FALSE, FALSE, {OsLabel}, {SqlLabel})

(* Both labels verbatim. *)
BothVerbatimText ==
  CrashText("f", TRUE, FALSE, FALSE, FALSE, {OsLabel, SqlLabel}, {})

LabelLines ==
  { StartLine(Some(10)),
    CrashLine(Some(12), StrippedEarlyText),
    CrashLine(Some(12), StrippedLateText),
    CrashLine(Some(12), BothVerbatimText),
    CrashLine(Some(12), SqlText),
    CrashLine(Some(12), SqlOldText),
    CrashLine(Some(12), UnknownText),
    CrashLine(Some(12), OverflowText),
    ArtifactLine(Some(15), "crash-a") }

InitLabels ==
  InitWith({NoFaultsEnv(FALSE), NoFaultsEnv(TRUE)}, LabelLines, MaxLabelLines)

SpecLabels == InitLabels /\ [][Next]_vars

(* The first label of the catalog among labels, or UNKNOWN SANITIZER. *)
FirstLabelIn(labels) ==
  IF labels \cap CatalogLabels = {} THEN "UNKNOWN SANITIZER"
  ELSE SANITIZERS[CHOOSE k \in DOMAIN SANITIZERS :
                    /\ SANITIZERS[k] \in labels
                    /\ \A m \in 1..(k - 1) : SANITIZERS[m] \notin labels]

(* The crash texts read that are interesting and no sink hit. *)
ScannedTexts ==
  { c \in ReadCrashTexts :
      is_interesting_crash(c) /\ ~is_of_jazzer_sink(c, env) }

(***************************************************************************)
(* C26 (as stated): the class of an interesting crash text outside sink     *)
(* mode is the first catalog label that occurs verbatim; the first label     *)
(* whose space-stripped form occurs only if no label occurs verbatim;        *)
(* UNKNOWN SANITIZER if neither.                                             *)
(***************************************************************************)
C26_AsStated ==
  /\ \A c \in ScannedTexts :
       crash_2_sanitizer(c, env) =
         (IF c.verb # {} THEN FirstLabelIn(c.verb) ELSE FirstLabelIn(c.strp))
  /\ \A a \in KeptClasses :
       a[1] \in ScannedTexts =>
         a[2] = (IF a[1].verb # {} THEN FirstLabelIn(a[1].verb)
                 ELSE FirstLabelIn(a[1].strp))

(***************************************************************************)
(* C26 (amended): the class of an interesting crash text outside sink mode  *)
(* is the first catalog label that occurs in the text verbatim or in its     *)
(* space-stripped form, whichever of the two ways; a verbatim label does not *)
(* win over the space-stripped form of an earlier label.  UNKNOWN SANITIZER  *)
(* only if no label occurs either way.                                       *)
(***************************************************************************)
C26_FirstLabelEitherWay ==
  /\ \A c \in ScannedTexts :
       crash_2_sanitizer(c, env) = FirstLabelIn(c.verb \cup c.strp)
  /\ \A a \in KeptClasses :
       a[1] \in ScannedTexts => a[2] = FirstLabelIn(a[1].verb \cup a[1].strp)

(* A crash with the later label verbatim and the earlier one space-stripped *)
(* was triaged under the earlier label.                                      *)
C26_Witness ==
  /\ ~env.JAZZER_SINK_MODE
  /\ Len(Triage) = 1
  /\ Triage[1][3] = StrippedEarlyText
  /\ Triage[1][2] = OsLabel

(***************************************************************************)
(* SpecMarker: crash texts with the sink-hit marker that the filter of       *)
(* is_interesting_crash rejects for each of its three reasons, one that it   *)
(* accepts and that names a catalog label, and a text without the marker;    *)
(* with JAZZER_SINK_MODE set and not set.                                    *)
(***************************************************************************)
MaxMarkerLines == 3

(* "Out of memory" and the marker in a code_intelligence finding. *)
OomSinkText == CrashText("q", TRUE, FALSE, TRUE, TRUE, {}, {})

MarkerLines ==
  { StartLine(Some(10)),
    CrashLine(Some(12), SinkText),
    CrashLine(Some(12), OverflowSinkText),
    CrashLine(Some(12), OomSinkText),
    CrashLine(Some(12), SinkSqlText),
    CrashLine(Some(12), SqlText),
    ArtifactLine(Some(15), "crash-a") }

InitMarker ==
  InitWith({NoFaultsEnv(FALSE), NoFaultsEnv(TRUE)}, MarkerLines, MaxMarkerLines)

SpecMarker == InitMarker /\ [][Next]_vars

(* The step reads a crash line. *)
CrashRead ==
  /\ consumed' # consumed
  /\ consumed'[Len(consumed')].kind = "crash"
  /\ pc' = "sync"

(* The pending queue with one more entry, of the crash just logged. *)
QueuedAs(class) ==
  LET logged == loc'.log_crash_over_time[Len(loc'.log_crash_over_time)] IN
  Append(loc.pending_crashes, << logged[1], logged[2], class >>)

(* The class of a text by the rules that do not look at the marker. *)
ClassWithoutMarker(c) ==
  IF c.ci /\ ~c.so /\ ~c.oom THEN FirstLabelIn(c.verb \cup c.strp)
  ELSE NoSanitizer

(***************************************************************************)
(* C27: with JAZZER_SINK_MODE set, a crash line whose text has the sink-hit  *)
(* marker is queued with class SINKPOINT, whatever the interestingness       *)
(* checks and the catalog labels in the text say; with JAZZER_SINK_MODE not  *)
(* set, such a line is handled by the rules that do not look at the marker.  *)
(***************************************************************************)
C27_SinkMarkerFirst ==
  [][(CrashRead /\ consumed'[Len(consumed')].crash.beep) =>
       LET c == consumed'[Len(consumed')].crash IN
       /\ loc'.log_crash_over_time[Len(loc'.log_crash_over_time)][2] = c
       /\ loc'.pending_crashes =
            IF env.JAZZER_SINK_MODE THEN QueuedAs("SINKPOINT")
            ELSE IF /\ ClassWithoutMarker(c) # NoSanitizer
                    /\ ClassWithoutMarker(c) \notin loc.seen_sanitizers
                 THEN QueuedAs(ClassWithoutMarker(c))
                 ELSE loc.pending_crashes]_vars

(* In sink mode a stack overflow text with the marker and a catalog label   *)
(* was queued as SINKPOINT and triaged as such.                              *)
C27_Witness ==
  /\ env.JAZZER_SINK_MODE
  /\ Len(Triage) = 1
  /\ Triage[1][3] = OverflowSinkText
  /\ Triage[1][2] = "SINKPOINT"

(* The lines read that match one of the two crash line patterns. *)
MatchedCrashLines ==
  { j \in DOMAIN consumed :
      \/ LIBFUZZER_CRASH_LINE_PTRN(Decode(consumed[j]))
      \/ OLD_LIBFUZZER_CRASH_LINE_PTRN(Decode(consumed[j])) }

(***************************************************************************)
(* C28: every line that matches a crash line pattern appends one entry,     *)
(* with its text, to log_crash_over_time, whatever its class, and no other   *)
(* line appends one; a crash whose class is None leaves the pending queue    *)
(* as it was, and no entry of the pending queue or of                        *)
(* log_triage_crash_over_time has a text whose class is None.                *)
(***************************************************************************)
C28_LoggedNotQueued ==
  /\ [](Len(loc.log_crash_over_time) = Cardinality(MatchedCrashLines))
  /\ [](\A c \in QueuedTexts \cup TriagedTexts :
          crash_2_sanitizer(c, env) # NoSanitizer)
  /\ [][CrashRead =>
          LET c == consumed'[Len(consumed')].crash IN
          /\ Len(loc'.log_crash_over_time) = Len(loc.log_crash_over_time) + 1
          /\ SubSeq(loc'.log_crash_over_time, 1, Len(loc.log_crash_over_time))
               = loc.log_crash_over_time
          /\ loc'.log_crash_over_time[Len(loc'.log_crash_over_time)][2] = c
          /\ crash_2_sanitizer(c, env) = NoSanitizer =>
               loc'.pending_crashes = loc.pending_crashes]_vars

(* Outside sink mode a stack overflow crash was read: it is in the crash    *)
(* log and not in the pending queue.                                         *)
C28_Witness ==
  /\ ~env.JAZZER_SINK_MODE
  /\ consumed = << StartLine(Some(10)), CrashLine(Some(12), OverflowText) >>
  /\ pc = "loop"
  /\ loc.log_crash_over_time = << << Some(2), OverflowText >> >>
  /\ loc.pending_crashes = << >>

(* The step reads, without an exception, a line with bytes that are no     *)
(* UTF-8.                                                                    *)
UndecodableRead ==
  /\ consumed' # consumed
  /\ consumed'[Len(consumed')].junk
  /\ pc' = "sync"

(***************************************************************************)
(* C29 (as stated): a line that is no UTF-8 text is written to the standard *)
(* output when the tee is on, and is dropped: no local of the loop changes   *)
(* (no event, no aggregate), and the loop goes on.                           *)
(***************************************************************************)
C29_AsStated ==
  [][UndecodableRead =>
       /\ tee_out' = (IF env.no_tee THEN tee_out
                      ELSE Append(tee_out, consumed'[Len(consumed')]))
       /\ loc' = loc]_vars

EventLists ==
  { "cov_over_time", "ft_over_time", "log_crash_over_time",
    "artifact_over_time", "log_triage_crash_over_time" }

IsPrefix(s, t) == Len(s) <= Len(t) /\ SubSeq(t, 1, Len(s)) = s

(***************************************************************************)
(* C30: every step leaves what each of the five event lists held as a       *)
(* prefix of what it holds after: entries are added at the end only, and     *)
(* none is changed, moved or removed.                                        *)
(***************************************************************************)
C30_AppendOnly ==
  [][\A f \in EventLists : IsPrefix(loc[f], loc'[f])]_vars

(* Two coverage lines, a crash line and the artifact line that triaged it   *)
(* went by: the five lists hold their entries in the order of the lines.     *)
C30_Witness ==
  /\ pc = "loop"
  /\ Len(consumed) = 4
  /\ consumed[1].kind = "cov"
  /\ consumed[2].kind = "cov"
  /\ Len(loc.cov_over_time) = 2
  /\ Len(loc.ft_over_time) = 2
  /\ loc.cov_over_time[1][2] = consumed[1].cov
  /\ loc.cov_over_time[2][2] = consumed[2].cov
  /\ Len(loc.log_crash_over_time) = 1
  /\ Len(loc.artifact_over_time) = 1
  /\ Len(loc.log_triage_crash_over_time) = 1

(* The step reads a line without an exception. *)
LineRead == consumed' # consumed /\ pc' = "sync"

LastRead == Decode(consumed'[Len(consumed')])

(* The round numbers of the coverage lines of one run (no exit marker       *)
(* between them) do not decrease, as the engine counts them.                 *)
RunsCountUp(s) ==
  \A i, j \in DOMAIN s :
    (/\ i < j
     /\ s[i].kind = "cov" /\ s[j].kind = "cov"
     /\ \A k \in i..(j - 1) : ~s[k].exit)
    => s[i].roundno <= s[j].roundno

SpecifiedCrashStep(l, line, e) ==
  LET rslt == _parse_crash_line(line, l.initial_timestamp) IN
  IF rslt = None THEN l
  ELSE LET logged == [l EXCEPT !.log_crash_over_time =
                                  Append(@, << rslt[1], rslt[2] >>)]
       IN IF crash_2_sanitizer(rslt[2], e) = NoSanitizer THEN logged
          ELSE [logged EXCEPT !.pending_crashes =
                  Append(@, << rslt[1], rslt[2], crash_2_sanitizer(rslt[2], e) >>)]

RECURSIVE SpecifiedRun(_, _, _)
SpecifiedRun(l, lines, e) ==
  IF lines = << >> THEN l
  ELSE LET line == Decode(Head(lines)) IN
       SpecifiedRun(
         ExitStep(ArtifactStep(SpecifiedCrashStep(
                                 CovStep(StartStep(l, line), line), line, e),
                               line),
                  line),
         Tail(lines), e)

(***************************************************************************)
(* C32: after any sequence of lines the triaged crashes of the code, which  *)
(* queues a crash only if its class is SINKPOINT or not yet seen, are those  *)
(* of the specified triage, which queues every crash with a class and looks  *)
(* at the seen set on artifact lines only; the seen sets are the same too.   *)
(***************************************************************************)
C32_SameTriage ==
  LET specified == SpecifiedRun(InitLocals, consumed, env) IN
  /\ loc.log_triage_crash_over_time = specified.log_triage_crash_over_time
  /\ loc.seen_sanitizers = specified.seen_sanitizers

(* A second crash of a class triaged before was read and an artifact line   *)
(* followed: the code never queued it, the specified triage queued it and    *)
(* dropped it on the artifact line; one triaged crash either way.            *)
C32_Witness ==
  /\ Len(consumed) = 4
  /\ consumed[1].kind = "crash" /\ consumed[1].crash = SqlText
  /\ consumed[2].kind = "artifact"
  /\ consumed[3].kind = "crash" /\ consumed[3].crash = SqlText
  /\ consumed[4].kind = "artifact"
  /\ pc = "loop"
  /\ Len(Triage) = 1
  /\ Len(SpecifiedRun(InitLocals, SubSeq(consumed, 1, 3), env).pending_crashes) = 1
  /\ Len(RunLines(InitLocals, SubSeq(consumed, 1, 3), env).pending_crashes) = 0

(* doc is what a dump writes at the boundary after k lines: the dict as it  *)
(* was at the call (no field before the first sync), or the ten fields with  *)
(* the values the first k lines give.                                        *)
IsBoundaryDocument(doc) ==
  \/ doc = EmptyDict
  \/ \E k \in 0..Len(consumed) :
       LET l == RunLines(InitLocals, SubSeq(consumed, 1, k), env) IN
       doc = Document(sync_result(l), l)

(***************************************************************************)
(* C33 (as stated): the document of every completed call of dump_fuzz_data, *)
(* from the loop, from the main part or from the signal handler, is the      *)
(* state after a whole number of lines: its lists and its five counters are  *)
(* those of one line boundary.                                               *)
(***************************************************************************)
C33_AsStated ==
  (/\ dump_log # << >>
   /\ dump_log[Len(dump_log)].ok
   /\ out_file.state = "written") => IsBoundaryDocument(out_file.doc)

(***************************************************************************)
(* SpecCoverage: coverage lines whose coverage and feature counts rise,     *)
(* fall and are zero, stamped and legacy, with a start line and an exit      *)
(* marker.                                                                   *)
(***************************************************************************)
MaxCoverageLines == 4

CoverageLines ==
  { StartLine(Some(10)),
    CovLine(Some(11), 1, 7, 3),
    CovLine(Some(12), 2, 5, 4),
    CovLine(None, 3, 0, 0),
    CovLine(Some(13), 4, 9, 3),
    WithExit(OtherLine(Some(14))) }

InitCoverage ==
  InitWith({NoFaultsEnv(FALSE)}, CoverageLines, MaxCoverageLines)

SpecCoverage == InitCoverage /\ [][Next]_vars

(* The greatest of the values (second components) of a non-empty list. *)
MaxValue(list) ==
  CHOOSE m \in { list[i][2] : i \in DOMAIN list } :
    \A i \in DOMAIN list : list[i][2] <= m

(* The counters c (the locals or the dict) agree with the two lists. *)
CountersAgree(c, cov, ft) ==
  /\ Len(cov) = Len(ft)
  /\ \A i \in DOMAIN cov : cov[i][1] = ft[i][1]
  /\ IF cov = << >>
     THEN c.last_cov = 0 /\ c.last_ft = 0 /\ c.max_cov = 0 /\ c.max_ft = 0
     ELSE /\ c.last_cov = cov[Len(cov)][2]
          /\ c.last_ft = ft[Len(ft)][2]
          /\ c.max_cov = MaxValue(cov)
          /\ c.max_ft = MaxValue(ft)
  /\ c.max_cov >= c.last_cov
  /\ c.max_ft >= c.last_ft

(***************************************************************************)
(* C34: after every line cov_over_time and ft_over_time have one length and *)
(* the same elapsed times, entry by entry; last_cov and last_ft are the      *)
(* values of their last entries and max_cov and max_ft the greatest values   *)
(* of all entries, or all four are 0 when the lists are empty; max_cov and   *)
(* max_ft are not less than last_cov and last_ft and never decrease.  This   *)
(* holds of the locals and of the dict at the head of the loop.              *)
(***************************************************************************)
C34_CountersAgree ==
  /\ [](CountersAgree(loc, loc.cov_over_time, loc.ft_over_time))
  /\ []((pc = "loop" /\ fuzz_data.has_fields) =>
          CountersAgree(fuzz_data, loc.cov_over_time, loc.ft_over_time))
  /\ [][/\ loc'.max_cov >= loc.max_cov
        /\ loc'.max_ft >= loc.max_ft
        /\ (fuzz_data.has_fields /\ fuzz_data'.has_fields) =>
             /\ fuzz_data'.max_cov >= fuzz_data.max_cov
             /\ fuzz_data'.max_ft >= fuzz_data.max_ft]_vars

(* Coverage went 7, 5, 0: the last value is 0 and the greatest 7, and the   *)
(* feature count went 3, 4, 0.                                               *)
C34_Witness ==
  /\ pc = "loop"
  /\ Len(loc.cov_over_time) = 3
  /\ fuzz_data.has_fields
  /\ fuzz_data.last_cov = 0 /\ fuzz_data.max_cov = 7
  /\ fuzz_data.last_ft = 0 /\ fuzz_data.max_ft = 4

(* The entries the step appends to log_triage_crash_over_time. *)
NewlyTriaged ==
  SubSeq(loc'.log_triage_crash_over_time,
         Len(loc.log_triage_crash_over_time) + 1,
         Len(loc'.log_triage_crash_over_time))

ClassLabels == CatalogLabels \cup {"UNKNOWN SANITIZER", "SINKPOINT"}

(***************************************************************************)
(* C35: an entry (t, class, text, artifact) is appended to                  *)
(* log_triage_crash_over_time by an artifact line only; (t, text) is an      *)
(* entry log_crash_over_time had before that line, artifact is the id of the *)
(* entry the line appends to artifact_over_time, and class is a catalog      *)
(* label, UNKNOWN SANITIZER or SINKPOINT.  There are never more triaged      *)
(* crashes than crash entries.                                               *)
(***************************************************************************)
C35_TriagedFromEvents ==
  /\ [](Len(loc.log_triage_crash_over_time) <= Len(loc.log_crash_over_time))
  /\ [](\A i \in DOMAIN Triage : Triage[i][2] \in ClassLabels)
  /\ [][/\ IsPrefix(loc.log_triage_crash_over_time,
                    loc'.log_triage_crash_over_time)
        /\ NewlyTriaged # << >> =>
             /\ ArtifactRead
             /\ Len(loc'.artifact_over_time) = Len(loc.artifact_over_time) + 1
             /\ \A i \in DOMAIN NewlyTriaged :
                  /\ NewlyTriaged[i][4] =
                       loc'.artifact_over_time[Len(loc'.artifact_over_time)][2]
                  /\ \E j \in DOMAIN loc.log_crash_over_time :
                       loc.log_crash_over_time[j] =
                         << NewlyTriaged[i][1], NewlyTriaged[i][3] >>]_vars

(* A crash logged at elapsed time 2 was triaged by the artifact line of     *)
(* elapsed time 5: the triaged entry has the crash's time and text and the   *)
(* artifact's id.                                                            *)
C35_Witness ==
  /\ pc = "loop"
  /\ Len(consumed) = 3
  /\ loc.log_crash_over_time = << << Some(2), SqlText >> >>
  /\ loc.artifact_over_time = << << Some(5), "crash-a" >> >>
  /\ Triage = << << Some(2), SqlLabel, SqlText, "crash-a" >> >>

(***************************************************************************)
(* SpecPending: crashes of two classes before, at and after the time of an  *)
(* artifact line, and an artifact line of the legacy format.                 *)
(***************************************************************************)
MaxPendingLines == 5

PendingLines ==
  { StartLine(Some(10)),
    CrashLine(Some(12), SqlText),
    CrashLine(Some(15), UnknownText),
    CrashLine(Some(18), SqlText),
    ArtifactLine(Some(15), "crash-a"),
    ArtifactLine(None, "crash-b") }

InitPending == InitWith({NoFaultsEnv(FALSE)}, PendingLines, MaxPendingLines)

SpecPending == InitPending /\ [][Next]_vars

(* The elapsed time of the artifact line the step reads. *)
ArtifactElapsed == loc'.artifact_over_time[Len(loc'.artifact_over_time)][1]

(***************************************************************************)
(* C36: after an artifact line every crash left in the pending queue has a  *)
(* known elapsed time, the artifact has a known elapsed time, and the        *)
(* crash's is the greater; an artifact line of unknown elapsed time (legacy  *)
(* format, or no baseline yet) leaves the queue empty.  One artifact line    *)
(* may triage several crashes.                                               *)
(***************************************************************************)
C36_LeftAreLater ==
  [][ArtifactRead =>
       /\ \A i \in DOMAIN loc'.pending_crashes :
            /\ loc'.pending_crashes[i][1] # None
            /\ ArtifactElapsed # None
            /\ loc'.pending_crashes[i][1][1] > ArtifactElapsed[1]
       /\ ArtifactElapsed = None => loc'.pending_crashes = << >>]_vars

(* The artifact line of elapsed time 5 triaged the crashes of times 2 and 5, *)
(* of two classes, under its one id, and left the crash of time 8.           *)
C36_Witness ==
  /\ pc = "loop"
  /\ Len(consumed) = 5
  /\ consumed[5] = ArtifactLine(Some(15), "crash-a")
  /\ Len(Triage) = 2
  /\ Triage[1][4] = "crash-a" /\ Triage[2][4] = "crash-a"
  /\ Triage[1][2] # Triage[2][2]
  /\ Triage[2][1] = Some(5)
  /\ Len(loc.pending_crashes) = 1
  /\ loc.pending_crashes[1][1] = Some(8)

(***************************************************************************)
(* SpecSegments: two run segments in one stream, parted by the exit marker  *)
(* and a second start line, with crashes of a catalog class and sink hits,   *)
(* with JAZZER_SINK_MODE set.                                                *)
(***************************************************************************)
MaxSegmentLines == 5

SegmentLines ==
  { StartLine(Some(10)), StartLine(Some(30)),
    WithExit(OtherLine(Some(20))),
    CrashLine(Some(12), SqlText),
    CrashLine(Some(13), SinkText),
    ArtifactLine(Some(25), "crash-a") }

InitSegments == InitWith({NoFaultsEnv(TRUE)}, SegmentLines, MaxSegmentLines)

SpecSegments == InitSegments /\ [][Next]_vars

(* Line m of the lines read closes a run segment or opens a later one. *)
IsSegmentBoundary(m) ==
  \/ Decode(consumed[m]).exit
  \/ /\ FUZZ_START_LINE_PTRN(Decode(consumed[m]))
     /\ RecognizedStarts(SubSeq(consumed, 1, m - 1)) # {}

(* The classes triaged up to line m, and those triaged after it. *)
ClassesTriagedBy(m) ==
  LET t == RunLines(InitLocals, SubSeq(consumed, 1, m), env)
             .log_triage_crash_over_time
  IN { t[i][2] : i \in DOMAIN t }

ClassesTriagedAfter(m) ==
  LET t == RunLines(InitLocals, SubSeq(consumed, 1, m), env)
             .log_triage_crash_over_time
  IN { Triage[i][2] : i \in (Len(t) + 1)..Len(Triage) }

(* The step reads a line that closes a segment or opens a later one and is  *)
(* no event line.                                                            *)
BoundaryRead ==
  /\ LineRead
  /\ \/ LastRead.exit
     \/ FUZZ_START_LINE_PTRN(LastRead) /\ RecognizedStarts(consumed) # {}
  /\ LastRead.kind \in {"start", "other"}

(* Every eligible crash of the queue whose class may be triaged has its     *)
(* class among the entries the step appends.                                 *)
EligibleAreTriaged ==
  \A i \in DOMAIN loc.pending_crashes :
    LET p == loc.pending_crashes[i] IN
    (/\ Eligible(ArtifactElapsed, p[1])
     /\ NotSeenOrSink(p[3], loc.seen_sanitizers))
    => \E k \in DOMAIN NewlyTriaged :
         NewlyTriaged[k][2] = p[3] /\ (p[3] = "SINKPOINT" => NewlyTriaged[k][3] = p[2])

(***************************************************************************)
(* C37 (as stated): the exit marker and a later start line leave the        *)
(* pending queue and the seen set as they are, a pending crash is triaged by *)
(* the first eligible artifact line of whatever segment, and no class        *)
(* triaged before a segment boundary is triaged again after it.              *)
(***************************************************************************)
C37_AsStated ==
  \A m \in DOMAIN consumed :
    IsSegmentBoundary(m) => ClassesTriagedBy(m) \cap ClassesTriagedAfter(m) = {}

(***************************************************************************)
(* C37 (amended): the exit marker and a later start line leave the pending  *)
(* queue and the seen set as they are; the first eligible artifact line of   *)
(* whatever segment triages a pending crash whose class is SINKPOINT or not  *)
(* yet seen; no class other than SINKPOINT that was triaged before a segment *)
(* boundary is triaged again after it.                                       *)
(***************************************************************************)
C37_TriageAcrossSegments ==
  /\ [](\A m \in DOMAIN consumed :
          IsSegmentBoundary(m) =>
            ClassesTriagedBy(m) \cap ClassesTriagedAfter(m) \subseteq {"SINKPOINT"})
  /\ [][/\ BoundaryRead =>
             /\ loc'.pending_crashes = loc.pending_crashes
             /\ loc'.seen_sanitizers = loc.seen_sanitizers
        /\ ArtifactRead => EligibleAreTriaged]_vars

(* A crash of the first segment was still pending at the exit marker and at  *)
(* the second start line, and the artifact line of the second segment        *)
(* triaged it.                                                               *)
C37_Witness ==
  /\ consumed = << StartLine(Some(10)), CrashLine(Some(12), SqlText),
                   WithExit(OtherLine(Some(20))), StartLine(Some(30)),
                   ArtifactLine(Some(25), "crash-a") >>
  /\ pc = "loop"
  /\ Triage = << << Some(2), SqlLabel, SqlText, "crash-a" >> >>
  /\ loc.pending_crashes = << >>
  /\ SqlLabel \in loc.seen_sanitizers

(* The step reads a line while no recognized start line has been read. *)
ReadBeforeStart == LineRead /\ RecognizedStarts(consumed) = {}

(***************************************************************************)
(* C38: a coverage, crash or artifact line read before the first recognized *)
(* start line, with or without a timestamp, is recorded with elapsed time    *)
(* None; an artifact line of elapsed time None leaves no crash pending, and   *)
(* no crash of elapsed time None is left pending by any artifact line.        *)
(***************************************************************************)
C38_NullBeforeStart ==
  [][/\ (ReadBeforeStart /\ LastRead.kind = "cov") =>
          /\ loc'.cov_over_time =
               Append(loc.cov_over_time, << None, LastRead.cov >>)
          /\ loc'.ft_over_time =
               Append(loc.ft_over_time, << None, LastRead.ft >>)
     /\ (ReadBeforeStart /\ LastRead.kind = "crash") =>
          loc'.log_crash_over_time =
            Append(loc.log_crash_over_time, << None, LastRead.crash >>)
     /\ (ReadBeforeStart /\ LastRead.kind = "artifact") =>
          /\ loc'.artifact_over_time =
               Append(loc.artifact_over_time, << None, LastRead.artifact >>)
          /\ loc'.pending_crashes = << >>
     /\ ArtifactRead =>
          \A i \in DOMAIN loc'.pending_crashes :
            loc'.pending_crashes[i][1] # None]_vars

(* Stamped coverage, crash and artifact lines came before any start line:   *)
(* all are recorded without elapsed time, and the crash was triaged.         *)
C38_Witness ==
  /\ consumed = << CovLine(Some(22), 1, 7, 3), CrashLine(Some(24), SqlText),
                   ArtifactLine(Some(26), "crash-a") >>
  /\ pc = "loop"
  /\ loc.cov_over_time = << << None, 7 >> >>
  /\ loc.artifact_over_time = << << None, "crash-a" >> >>
  /\ Triage = << << None, SqlLabel, SqlText, "crash-a" >> >>

(***************************************************************************)
(* SpecScan: queues of up to three crashes met by an artifact line, run     *)
(* under weak fairness of the steps of the loop: the interpreter takes the   *)
(* next step of the loop whenever there is one.                              *)
(***************************************************************************)
MaxScanLines == 4

ScanLines ==
  { StartLine(Some(10)),
    CrashLine(Some(12), SqlText),
    CrashLine(Some(13), UnknownText),
    CrashLine(Some(18), SqlText),
    ArtifactLine(Some(15), "crash-a") }

InitScan == InitWith({NoFaultsEnv(FALSE)}, ScanLines, MaxScanLines)

SpecScan == InitScan /\ [][Next]_vars /\ WF_vars(Next)

(***************************************************************************)
(* C39: on every finite stream parse_log_in_stream returns; the scan of an  *)
(* artifact line examines every crash of the queue once: the queue after it  *)
(* is the queue before it without its eligible crashes, none skipped, and    *)
(* no more crashes are triaged than were removed.                            *)
(***************************************************************************)
C39_Terminates ==
  /\ <>(pc \in {"returned", "exited"})
  /\ [][ArtifactRead =>
          /\ loc'.pending_crashes = SelectSeq(loc.pending_crashes, Ineligible)
          /\ Len(NewlyTriaged) <=
               Len(loc.pending_crashes) - Len(loc'.pending_crashes)]_vars

(* The function has returned after an artifact line that met a queue of two *)
(* eligible crashes, one after the other, and took both.                     *)
C39_Witness ==
  /\ consumed = << StartLine(Some(10)), CrashLine(Some(12), SqlText),
                   CrashLine(Some(13), UnknownText),
                   ArtifactLine(Some(15), "crash-a") >>
  /\ pc = "returned"
  /\ loc.pending_crashes = << >>
  /\ Len(Triage) = 2

(***************************************************************************)
(* C40: fuzz_data changes in sync_result at the end of a line and nowhere   *)
(* else.  As long as no line has reached its sync (an empty stream, a first  *)
(* line whose write to stdout raises) the dict has none of the ten fields,   *)
(* and the final dump of a script that ends so writes the dict as it is,     *)
(* next to the keys found in the destination.                                *)
(***************************************************************************)
C40_NoFieldsBeforeSync ==
  /\ [](synced_at = 0 => fuzz_data = EmptyDict)
  /\ []((pc = "exited" /\ synced_at = 0) =>
          /\ out_file = WrittenIn(out_obj, EmptyDict)
          /\ dump_log # << >>
          /\ dump_log[Len(dump_log)].ok)
  /\ [][fuzz_data' # fuzz_data =>
          /\ pc = "sync"
          /\ synced_at' = Len(consumed)
          /\ fuzz_data' = sync_result(loc)]_vars

(* The write of the first line to stdout raised: the function returned      *)
(* without a sync and the final dump wrote a dict without fields.            *)
C40_Witness ==
  /\ pc = "exited"
  /\ sig = "none"
  /\ Len(consumed) = 1
  /\ caught
  /\ synced_at = 0
  /\ fuzz_data = EmptyDict
  /\ env.existing = NoFile
  /\ out_file = Written(EmptyDict)
  /\ Len(dump_log) = 1
  /\ dump_log[1].by = "main"

=============================================================================
